---- MODULE Spec2Model ----
(***************************************************************************)
(* Rule-based intent recognition: the regex and keyword recognizers, the   *)
(* merge policy and the slot extractor of RuleBasedIntentChain, and the    *)
(* on-demand Excel recognizer, the recognizer orchestrator around it and   *)
(* its slot filling stage with named fillers and a fallback filler.  Then  *)
(* the state table of FSMProcessor and its hook, the conversation store of *)
(* the chat service (SessionManager behind the chat handlers), and the     *)
(* workflow registry (WorkflowRegistry and GraphBuilder).                  *)
(*                                                                         *)
(* Texts are sequences of characters.  A Chinese character is written as a *)
(* short pinyin token ("cha" is U+67E5, "ding" U+8BA2, "dan" U+5355, ...), *)
(* a digit as the one-character string of that digit.  Confidences are     *)
(* counted in tenths: 9 is 0.9, 10 is 1.0.  The float sums the keyword     *)
(* recognizer can form (0.4, 0.4+0.4 = 0.8, and sums above 1.0 that are    *)
(* clamped to 1.0) are exact in tenths.                                    *)
(***************************************************************************)
EXTENDS Integers, Sequences, FiniteSets, TLC

VARIABLES
    op,            \* "call invoke", "call merge", "call extract_slots": the
                   \* call to make; "invoke", "merge", "extract_slots": the
                   \* call that has returned
    text,          \* the text given to invoke or to extract_slots
    slot_intent,   \* the intent given to extract_slots
    calls,         \* the invoke calls this chain has answered, oldest first
    results,       \* the list given to _merge_results
    scores,        \* the dict scores of KeywordIntentParser.parse
    final_result,  \* the IntentResult _merge_results returned
    ret,           \* the value the call returned
    e_config,      \* the config the Excel recognizer was constructed with
    e_text,        \* the text given to process
    e_arg,         \* the context argument of handle: None or the caller's mapping
    e_context,     \* the context given to process
    e_sheet,       \* whether the Excel sheet can be read
    e_fate,        \* per recognizer: its call returns, raises or never returns
    e_pc,          \* where process is: "next", "running", "select", "fill",
                   \* "fallback", "return", "done"
    e_i,           \* the number of the recognizer process is at
    e_elapsed,     \* the time the running recognizer call has taken
    e_collected,   \* what process recorded for the recognizers run so far
    e_outcome,     \* how their calls ended: "returned", "raised", "timeout"
    e_log,         \* the log lines process wrote
    e_ret,         \* the IntentResult process returned
    e_fillers,     \* the names of the extra slot fillers registered at construction
    e_llm,         \* the fallback filler: "absent", or how its call ends:
                   \* "returns", "raises", "hangs"
    e_merged,      \* the result of the merge step
    e_selected,    \* the filler used for this call: "default" or a registered name
    e_filled,      \* the result as the selected filler left it
    e_slots,       \* the slots to return
    e_fallback,    \* the fallback call: "not called", "returned", "raised", "timeout"
    e_reads,       \* how often the Excel sheet was read during this call
    e_turn,        \* the number of this call on the engine
    e_prev,        \* the context, filler and result of the call before this one
    current_state, \* FSMProcessor.current_state
    fsm_request,   \* the last call on the FSM, with the state it was made in
    e_hook,        \* what the context hook answered for this call of process
    sessions,      \* SessionManager.sessions: session id -> list of records
    last_activity, \* SessionManager.last_activity: session id -> time
    max_history_length,  \* SessionManager.max_history_length
    clock,         \* time.time(), counted in hours
    chat,          \* the /chat requests being served: where each one is
    sent,          \* the number of /chat requests received so far
    store_request, \* the last call on the SessionManager
    added,         \* per session id, the records added since it was last cleared
    registry,      \* WorkflowRegistry._registry: workflow id -> compiled graph
    definitions,   \* WorkflowRegistry._definitions: workflow id -> definition
    nodes_map,     \* WorkflowRegistry._nodes_map: workflow id -> the nodes built
    wf_request,    \* the last call on the WorkflowRegistry and how it ended
    wf_live        \* the ids whose registration returned and that no
                   \* unregister_workflow has removed since

chain_vars == <<op, text, slot_intent, calls, results, scores, final_result, ret>>

\* what stays as it is while a call runs
e_call ==
    <<e_config, e_text, e_arg, e_context, e_sheet, e_fate, e_fillers, e_llm,
      e_turn, e_prev>>

engine_vars ==
    <<e_call, e_pc, e_i, e_elapsed, e_collected, e_outcome, e_log, e_ret,
      e_merged, e_selected, e_filled, e_slots, e_fallback, e_reads>>

fsm_vars == <<current_state, fsm_request>>

hook_vars == <<e_hook>>

\* the parts next to the chain and the engine
store_vars ==
    <<sessions, last_activity, max_history_length, clock, chat, sent, store_request,
      added>>

registry_vars == <<registry, definitions, nodes_map, wf_request, wf_live>>

rest_vars == <<fsm_vars, hook_vars, store_vars, registry_vars>>

vars == <<chain_vars, engine_vars, rest_vars>>

(***************************************************************************)
(* Bounds of the model.                                                    *)
(***************************************************************************)
MaxFrags == 2
MaxResults == 3
MaxCalls == 3
MaxTurns == 2
MaxHistoryLength == 2
MaxMessages == 2
MaxClock == 1

(***************************************************************************)
(* Characters.                                                             *)
(***************************************************************************)
Digit == {"0", "1", "2", "3", "4", "5", "6", "7", "8", "9"}

Min(a, b) == IF a <= b THEN a ELSE b

(***************************************************************************)
(* Regular expressions, as re.search evaluates them: a pattern is a        *)
(* sequence of atoms, matched by backtracking in priority order.           *)
(*   lit   one given character                                             *)
(*   rep   between min and max characters of a class (max = -1: no limit), *)
(*         greedy (most first) or lazy (fewest first); cls = {} is '.',    *)
(*         any character                                                   *)
(*   alt   one of several literal strings, tried in order                  *)
(*   open, close   the parentheses of capture group 1                      *)
(***************************************************************************)
Lit(c) == [t |-> "lit", c |-> c]
Rep(cls, min, max, greedy) == [t |-> "rep", cls |-> cls, min |-> min, max |-> max, greedy |-> greedy]
Alt(ws) == [t |-> "alt", ws |-> ws]
Open == [t |-> "open"]
Close == [t |-> "close"]

DotStar == Rep({}, 0, -1, TRUE)
DotStarLazy == Rep({}, 0, -1, FALSE)
Digits(n) == Rep(Digit, n, -1, TRUE)

NoMatch == [ok |-> FALSE, s |-> 0, e |-> 0, gs |-> 0, ge |-> 0]

InClass(c, cls) == cls = {} \/ c \in cls

\* the number of characters of class cls at the front of t[pos..], at most max
RECURSIVE Run(_, _, _, _)
Run(t, pos, cls, max) ==
    IF max = 0 \/ pos > Len(t) \/ ~InClass(t[pos], cls) THEN 0
    ELSE 1 + Run(t, pos + 1, cls, max - 1)

HasPrefixAt(t, pos, w) ==
    /\ pos + Len(w) - 1 <= Len(t)
    /\ \A j \in 1..Len(w) : t[pos + j - 1] = w[j]

RECURSIVE MatchHere(_, _, _, _, _, _)
RECURSIVE TryRep(_, _, _, _, _, _, _, _, _)
RECURSIVE TryAlt(_, _, _, _, _, _, _)

\* atoms k.. of pattern p against t from position pos; gs, ge: group 1 so far
MatchHere(p, k, t, pos, gs, ge) ==
    IF k > Len(p) THEN [ok |-> TRUE, s |-> 0, e |-> pos, gs |-> gs, ge |-> ge]
    ELSE LET a == p[k] IN
         CASE a.t = "lit" ->
                IF pos <= Len(t) /\ t[pos] = a.c
                THEN MatchHere(p, k + 1, t, pos + 1, gs, ge)
                ELSE NoMatch
           [] a.t = "open" -> MatchHere(p, k + 1, t, pos, pos, ge)
           [] a.t = "close" -> MatchHere(p, k + 1, t, pos, gs, pos)
           [] a.t = "rep" ->
                LET most == Run(t, pos, a.cls, a.max) IN
                IF most < a.min THEN NoMatch
                ELSE IF a.greedy
                     THEN TryRep(p, k, t, pos, gs, ge, most, a.min, -1)
                     ELSE TryRep(p, k, t, pos, gs, ge, a.min, most, 1)
           [] a.t = "alt" -> TryAlt(p, k, t, pos, gs, ge, 1)

\* the repetition p[k] taking n characters, then n + step, ... up to last
TryRep(p, k, t, pos, gs, ge, n, last, step) ==
    LET r == MatchHere(p, k + 1, t, pos + n, gs, ge) IN
    IF r.ok THEN r
    ELSE IF n = last THEN NoMatch
    ELSE TryRep(p, k, t, pos, gs, ge, n + step, last, step)

\* the alternatives of p[k] from the j-th on
TryAlt(p, k, t, pos, gs, ge, j) ==
    IF j > Len(p[k].ws) THEN NoMatch
    ELSE LET w == p[k].ws[j]
             r == IF HasPrefixAt(t, pos, w)
                  THEN MatchHere(p, k + 1, t, pos + Len(w), gs, ge)
                  ELSE NoMatch
         IN IF r.ok THEN r ELSE TryAlt(p, k, t, pos, gs, ge, j + 1)

\* re.search: the first start position, left to right, from which p matches
RECURSIVE SearchFrom(_, _, _)
SearchFrom(p, t, start) ==
    IF start > Len(t) + 1 THEN NoMatch
    ELSE LET r == MatchHere(p, 1, t, start, 0, 0) IN
         IF r.ok THEN [r EXCEPT !.s = start] ELSE SearchFrom(p, t, start + 1)

re_search(p, t) == SearchFrom(p, t, 1)

HasGroup(p) == \E k \in 1..Len(p) : p[k].t = "open"

\* match.group(1)
Group1(t, m) == SubSeq(t, m.gs, m.ge - 1)

(***************************************************************************)
(* IntentResult (core/models.py).  extracted_entities is None or a tuple.  *)
(***************************************************************************)
None == [isNone |-> TRUE, val |-> <<>>]
Some(v) == [isNone |-> FALSE, val |-> v]

\* IntentResult(): the defaults, matched_rules = None replaced by []
DefaultIntentResult ==
    [intent |-> "unknown", confidence |-> 0, matched_rules |-> <<>>,
     extracted_entities |-> None]

IntentResult(intent, confidence, matched_rules, extracted_entities) ==
    [intent |-> intent, confidence |-> confidence, matched_rules |-> matched_rules,
     extracted_entities |-> extracted_entities]

\* the intents, in the order the configuration dicts declare them
IntentOrder == <<"query_order", "refund", "issue_invoice">>

(***************************************************************************)
(* RegexIntentParser (core/regex_matcher.py).                              *)
(***************************************************************************)
\* self.patterns
patterns ==
    [i \in {"query_order", "refund", "issue_invoice"} |->
        CASE i = "query_order" ->
               << \* cha.*dingdan.*(\d+)
                  <<Lit("cha"), DotStar, Lit("ding"), Lit("dan"), DotStar,
                    Open, Digits(1), Close>>,
                  \* dingdanhao.*?(\d{6,})
                  <<Lit("ding"), Lit("dan"), Lit("hao"), DotStarLazy,
                    Open, Digits(6), Close>>,
                  \* wodedingdan.*zhuangtai
                  <<Lit("wo"), Lit("de"), Lit("ding"), Lit("dan"), DotStar,
                    Lit("zhuang"), Lit("tai")>> >>
          [] i = "refund" ->
               << <<Lit("tui"), DotStar, Lit("kuan")>>,
                  <<Lit("qu"), Lit("xiao"), DotStar, Lit("ding"), Lit("dan")>>,
                  <<Lit("bu"), Lit("yao"), DotStar, Lit("le")>> >>
          [] i = "issue_invoice" ->
               << <<Lit("kai"), DotStar, Lit("fa"), Lit("piao")>>,
                  <<Lit("yao"), DotStar, Lit("fa"), Lit("piao")>>,
                  <<Lit("fa"), Lit("piao"), DotStar, Lit("kai")>> >>]

\* f"regex_{intent}_{i}", as its parts; i counts from 0
RegexRule(intent, i) == <<"regex", "_", intent, "_", i>>

\* f"keyword_{intent}"
KeywordRule(intent) == <<"keyword", "_", intent>>

\* "regex" in rule
RuleHasRegex(rule) == \E j \in 1..Len(rule) : rule[j] = "regex"

\* match.groups() if match.groups() else None
GroupsOrNone(p, t, m) == IF HasGroup(p) THEN Some(<<Group1(t, m)>>) ELSE None

\* RegexScan without the early return: the last matching pattern wins
RECURSIVE RegexScanLast(_, _, _)
RegexScanLast(t, ii, i) ==
    IF ii > Len(IntentOrder) THEN DefaultIntentResult
    ELSE LET intent == IntentOrder[ii] IN
         IF i > Len(patterns[intent]) THEN RegexScanLast(t, ii + 1, 1)
         ELSE LET p == patterns[intent][i]
                  m == re_search(p, t)
                  later == RegexScanLast(t, ii, i + 1)
              IN IF m.ok /\ later.intent = "unknown"
                 THEN IntentResult(intent, 9, <<RegexRule(intent, i - 1)>>,
                                   GroupsOrNone(p, t, m))
                 ELSE later

\* the loops of parse from intent number ii, pattern number i (from 1) on
RECURSIVE RegexScan(_, _, _)
RegexScan(t, ii, i) ==
    IF ii > Len(IntentOrder) THEN DefaultIntentResult
    ELSE LET intent == IntentOrder[ii] IN
         IF i > Len(patterns[intent]) THEN RegexScan(t, ii + 1, 1)
         ELSE LET p == patterns[intent][i]
                  m == re_search(p, t)
              IN IF m.ok
                 THEN IntentResult(intent, 9, <<RegexRule(intent, i - 1)>>,
                                   GroupsOrNone(p, t, m))
                 ELSE RegexScan(t, ii, i + 1)

RegexParse(t) == RegexScan(t, 1, 1)

(***************************************************************************)
(* KeywordIntentParser (core/keyword_matcher.py).                          *)
(***************************************************************************)
\* self.keywords
keywords ==
    [i \in {"query_order", "refund", "issue_invoice"} |->
        CASE i = "query_order" ->
               [primary |-> << <<"cha", "ding", "dan">>,
                               <<"ding", "dan", "zhuang", "tai">>,
                               <<"wu", "liu", "xin", "xi">> >>,
                secondary |-> << <<"kuai", "di">>, <<"fa", "huo">>,
                                 <<"dao", "le", "ma">> >>,
                weights |-> [primary |-> 8, secondary |-> 4]]
          [] i = "refund" ->
               [primary |-> << <<"tui", "qian">>, <<"tui", "kuan">>,
                               <<"tui", "huo">> >>,
                secondary |-> << <<"bu", "yao">>, <<"qu", "xiao">>,
                                 <<"tui", "hui">> >>,
                weights |-> [primary |-> 8, secondary |-> 4]]
          [] i = "issue_invoice" ->
               [primary |-> << <<"kai", "fa", "piao">>, <<"yao", "fa", "piao">>,
                               <<"fa", "piao">> >>,
                secondary |-> << <<"bao", "xiao2">>, <<"kai", "piao">> >>,
                weights |-> [primary |-> 8, secondary |-> 4]]]

\* word in text
Contains(t, w) == \E pos \in 1..(Len(t) + 1) : HasPrefixAt(t, pos, w)

\* ScoreTier leaving the loop at the first word found
RECURSIVE ScoreTierFirstOnly(_, _, _, _, _)
ScoreTierFirstOnly(t, words, weight, j, acc) ==
    IF j > Len(words) THEN acc
    ELSE IF Contains(t, words[j])
         THEN [score |-> acc.score + weight,
               matched_words |-> Append(acc.matched_words, words[j])]
         ELSE ScoreTierFirstOnly(t, words, weight, j + 1, acc)

\* one "for word in config[tier]" loop from word j on, adding to acc
RECURSIVE ScoreTier(_, _, _, _, _)
ScoreTier(t, words, weight, j, acc) ==
    IF j > Len(words) THEN acc
    ELSE IF Contains(t, words[j])
         THEN ScoreTier(t, words, weight, j + 1,
                        [score |-> acc.score + weight,
                         matched_words |-> Append(acc.matched_words, words[j])])
         ELSE ScoreTier(t, words, weight, j + 1, acc)

\* score and matched_words of one intent when its two loops are done
IntentScore(t, intent) ==
    LET config == keywords[intent]
        a == ScoreTier(t, config.primary, config.weights.primary, 1,
                       [score |-> 0, matched_words |-> <<>>])
    IN ScoreTier(t, config.secondary, config.weights.secondary, 1, a)

\* KeywordScores without the cut at 1.0
KeywordScoresUnclamped(t) ==
    LET scored == {i \in DOMAIN keywords : IntentScore(t, i).score > 0} IN
    [i \in scored |-> [score |-> IntentScore(t, i).score,
                       matched_words |-> IntentScore(t, i).matched_words]]

\* the dict scores after the loop over the intents: the intents scoring > 0
KeywordScores(t) ==
    LET scored == {i \in DOMAIN keywords : IntentScore(t, i).score > 0} IN
    [i \in scored |-> [score |-> Min(IntentScore(t, i).score, 10),
                       matched_words |-> IntentScore(t, i).matched_words]]

\* MaxKey taking a later key of equal score
RECURSIVE MaxKeyLast(_, _, _)
MaxKeyLast(sc, ii, best) ==
    IF ii > Len(IntentOrder) THEN best
    ELSE LET k == IntentOrder[ii] IN
         IF k \in DOMAIN sc /\ (best = "" \/ sc[k].score >= sc[best].score)
         THEN MaxKeyLast(sc, ii + 1, k)
         ELSE MaxKeyLast(sc, ii + 1, best)

\* max(scores.keys(), key=...): the first key, in insertion order, no later
\* key beats; best is the best key so far
RECURSIVE MaxKey(_, _, _)
MaxKey(sc, ii, best) ==
    IF ii > Len(IntentOrder) THEN best
    ELSE LET k == IntentOrder[ii] IN
         IF k \in DOMAIN sc /\ (best = "" \/ sc[k].score > sc[best].score)
         THEN MaxKey(sc, ii + 1, k)
         ELSE MaxKey(sc, ii + 1, best)

KeywordParse(t) ==
    LET sc == KeywordScores(t) IN
    IF DOMAIN sc # {}
    THEN LET best_intent == MaxKey(sc, 1, "") IN
         IntentResult(best_intent, sc[best_intent].score,
                      <<KeywordRule(best_intent)>>,
                      Some(sc[best_intent].matched_words))
    ELSE DefaultIntentResult

(***************************************************************************)
(* SlotExtractor (core/slot_filler.py).                                    *)
(***************************************************************************)
SixDigits == <<Open, Digits(6), Close>>

\* (zuotian|jintian|qiantian ...)
Days(ws) == <<Open, Alt(ws), Close>>

\* self.slot_patterns
slot_patterns ==
    [i \in {"query_order", "refund", "issue_invoice"} |->
        CASE i = "query_order" ->
               [n \in {"order_id", "time"} |->
                  IF n = "order_id" THEN SixDigits
                  ELSE Days(<< <<"zuo", "tian">>, <<"jin", "tian">>,
                               <<"qian2", "tian">>, <<"shang", "zhou">>,
                               <<"ben", "yue">> >>)]
          [] i = "refund" ->
               [n \in {"order_id", "reason", "time"} |->
                  CASE n = "order_id" ->
                         \* dingdan.*?(\d{6,})
                         <<Lit("ding"), Lit("dan"), DotStarLazy>> \o SixDigits
                    [] n = "reason" ->
                         \* yinwei(.*?)suoyi
                         <<Lit("yin"), Lit("wei"), Open, DotStarLazy, Close,
                           Lit("suo"), Lit("yi")>>
                    [] n = "time" ->
                         \* (zuotian|jintian|qiantian).*xia.*dan
                         Days(<< <<"zuo", "tian">>, <<"jin", "tian">>,
                                 <<"qian2", "tian">> >>)
                         \o <<DotStar, Lit("xia"), DotStar, Lit("dan")>>]
          [] i = "issue_invoice" ->
               [n \in {"order_id", "amount"} |->
                  IF n = "order_id" THEN SixDigits
                  \* (\d+\.?\d*)yuan
                  ELSE <<Open, Digits(1), Rep({"."}, 0, 1, TRUE), Digits(0),
                         Close, Lit("yuan")>>]]

\* extract_slots falling back to the first intent's patterns for an intent
\* that has none
extract_slots_fallback(t, intent) ==
    LET pats == IF intent \in DOMAIN slot_patterns THEN slot_patterns[intent]
                ELSE slot_patterns[IntentOrder[1]]
        found == {n \in DOMAIN pats : re_search(pats[n], t).ok}
    IN [n \in found |-> Group1(t, re_search(pats[n], t))]

\* extract_slots giving every slot of the intent, with an empty value where
\* the pattern does not match
extract_slots_all_keys(t, intent) ==
    IF intent \in DOMAIN slot_patterns
    THEN LET pats == slot_patterns[intent] IN
         [n \in DOMAIN pats |->
            IF re_search(pats[n], t).ok THEN Group1(t, re_search(pats[n], t))
            ELSE <<>>]
    ELSE <<>>

\* extract_slots: the dict of the slots whose pattern matches, each with
\* match.group(1)
extract_slots(t, intent) ==
    IF intent \in DOMAIN slot_patterns
    THEN LET pats == slot_patterns[intent]
             found == {n \in DOMAIN pats : re_search(pats[n], t).ok}
         IN [n \in found |-> Group1(t, re_search(pats[n], t))]
    ELSE <<>>

(***************************************************************************)
(* RuleBasedIntentChain (core/rule_engine.py).                             *)
(***************************************************************************)
\* [r for r in rs if keep(r)], in list order
RECURSIVE ValidResults(_)
ValidResults(rs) ==
    IF rs = <<>> THEN <<>>
    ELSE IF Head(rs).intent # "unknown"
         THEN <<Head(rs)>> \o ValidResults(Tail(rs))
         ELSE ValidResults(Tail(rs))

IsRegexResult(r) ==
    \E j \in 1..Len(r.matched_rules) : RuleHasRegex(r.matched_rules[j])

RECURSIVE RegexResults(_)
RegexResults(rs) ==
    IF rs = <<>> THEN <<>>
    ELSE IF IsRegexResult(Head(rs))
         THEN <<Head(rs)>> \o RegexResults(Tail(rs))
         ELSE RegexResults(Tail(rs))

\* MaxByConfidence taking a later element of equal confidence
RECURSIVE MaxByConfidenceLast(_, _, _)
MaxByConfidenceLast(rs, j, best) ==
    IF j > Len(rs) THEN best
    ELSE IF rs[j].confidence >= best.confidence
         THEN MaxByConfidenceLast(rs, j + 1, rs[j])
         ELSE MaxByConfidenceLast(rs, j + 1, best)

\* max(rs, key=lambda x: x.confidence) on a non-empty list: the first
\* element no later one beats
RECURSIVE MaxByConfidence(_, _, _)
MaxByConfidence(rs, j, best) ==
    IF j > Len(rs) THEN best
    ELSE IF rs[j].confidence > best.confidence
         THEN MaxByConfidence(rs, j + 1, rs[j])
         ELSE MaxByConfidence(rs, j + 1, best)

\* _merge_results without the regex priority step
_merge_results_by_confidence(rs) ==
    LET valid_results == ValidResults(rs) IN
    IF valid_results = <<>> THEN DefaultIntentResult
    ELSE MaxByConfidence(valid_results, 2, valid_results[1])

_merge_results(rs) ==
    LET valid_results == ValidResults(rs)
        regex_results == RegexResults(valid_results)
    IN IF valid_results = <<>> THEN DefaultIntentResult
       ELSE IF regex_results # <<>> /\ regex_results[1].confidence > 8
            THEN regex_results[1]
            ELSE MaxByConfidence(valid_results, 2, valid_results[1])

\* _generate_reasoning, as the parts of the formatted sentence
_generate_reasoning(r) ==
    IF r.intent = "unknown" THEN <<"no rule matched">>
    ELSE <<IF IsRegexResult(r) THEN "regex match" ELSE "keyword match",
           r.intent, r.confidence>>

\* invoke extracting the slots for the intent of the keyword recognizer
InvokeResultSlotsOfKeyword(t) ==
    LET merged == _merge_results(<<RegexParse(t), KeywordParse(t)>>) IN
    [intent |-> merged.intent,
     confidence |-> merged.confidence,
     slots |-> extract_slots(t, KeywordParse(t).intent),
     matched_rules |-> merged.matched_rules,
     extracted_entities |-> merged.extracted_entities,
     reasoning |-> _generate_reasoning(merged)]

\* the dict invoke returns for the text t
InvokeResult(t) ==
    LET merged == _merge_results(<<RegexParse(t), KeywordParse(t)>>) IN
    [intent |-> merged.intent,
     confidence |-> merged.confidence,
     slots |-> extract_slots(t, merged.intent),
     matched_rules |-> merged.matched_rules,
     extracted_entities |-> merged.extracted_entities,
     reasoning |-> _generate_reasoning(merged)]

(***************************************************************************)
(* The texts the calls are made with: the test cases of main(), and every  *)
(* concatenation of at most MaxFrags fragments.                            *)
(***************************************************************************)
\* test_cases and batch_texts of main()
SampleTexts ==
    << <<"wo", "yao", "cha", "ding", "dan", "hao", "1", "2", "3", "4", "5", "6",
         "de", "wu", "liu", "zhuang", "tai">>,
       <<"tui", "kuan", "tui", "kuan", ",", "wo", "bu", "yao", "zhe", "ge",
         "shang2", "pin", "le">>,
       <<"bang", "wo", "kai", "ge", "fa", "piao", "ba">>,
       <<"zuo", "tian", "xia", "de", "ding", "dan", "8", "8", "8", "8", "8", "8",
         "xiang", "yao", "tui", "huo">>,
       <<"cha", "yi1", "xia", "wo", "de", "kuai", "di", "dao", "le", "ma">>,
       <<"bu", "zhi", "dao2", "shuo", "shen", "me">>,
       <<"wo", "xiang", "kai", "ge", "1", "0", "0", "0", "yuan", "de", "fa", "piao">>,
       <<"cha", "ding", "dan", "1", "2", "3">>,
       <<"tui", "huo", "shen2", "qing">>,
       <<"kai", "fa", "piao">> >>

Fragments ==
    { <<"cha", "ding", "dan">>, <<"ding", "dan", "zhuang", "tai">>,
      <<"kuai", "di">>, <<"dao", "le", "ma">>, <<"fa", "huo">>,
      <<"tui", "kuan">>, <<"tui", "huo">>, <<"bu", "yao">>, <<"qu", "xiao">>,
      <<"kai", "fa", "piao">>, <<"fa", "piao">>, <<"bao", "xiao2">>,
      <<"kai", "piao">>, <<"ding", "dan">>, <<"le">>, <<"kuan">>, <<"tui">>,
      <<"kai">>, <<"1">>, <<"1", "2", "3", "4", "5", "6">>, <<"wo">>,
      <<"yuan">>, <<"zuo", "tian">> }

RECURSIVE Concats(_)
Concats(n) ==
    IF n = 0 THEN {<<>>}
    ELSE LET shorter == Concats(n - 1) IN
         shorter \cup {a \o f : a \in shorter, f \in Fragments}

SampleSet == {SampleTexts[j] : j \in 1..Len(SampleTexts)}

\* texts on which the two recognizers name different intents and a slot of
\* the intent that loses the merge is found in the text
DisagreeTexts ==
    { <<"cha", "ding", "dan", "kai", "fa", "piao", "1", "0", "0", "0", "yuan">>,
      <<"kai", "fa", "piao", "kuai", "di", "dao", "le", "ma", "fa", "huo",
        "zuo", "tian">> }

Texts == Concats(MaxFrags) \cup SampleSet \cup DisagreeTexts

\* the texts and intents extract_slots is called with: what the slot patterns
\* are made of, in every order, the test cases of main(), and a sentence
\* giving a reason; the three intents with patterns and "unknown"
SlotFragments ==
    { <<"yin", "wei">>, <<"suo", "yi">>, <<"ding", "dan">>,
      <<"1", "2", "3", "4", "5", "6">>, <<"1">>, <<".">>, <<"5">>, <<"yuan">>,
      <<"zuo", "tian">>, <<"xia">>, <<"dan">>, <<"ben", "yue">> }

RECURSIVE SlotConcats(_)
SlotConcats(n) ==
    IF n = 0 THEN {<<>>}
    ELSE LET shorter == SlotConcats(n - 1) IN
         shorter \cup {a \o f : a \in shorter, f \in SlotFragments}

ReasonText == <<"yin", "wei", "bu", "yao", "le", "suo", "yi", "tui", "kuan">>

SlotTexts == SlotConcats(MaxFrags) \cup SampleSet \cup {ReasonText}

SlotIntents == {"query_order", "refund", "issue_invoice", "unknown"}

\* the results the two recognizers give for the test cases of main()
ResultPool ==
    {RegexParse(SampleTexts[j]) : j \in 1..Len(SampleTexts)}
    \cup {KeywordParse(SampleTexts[j]) : j \in 1..Len(SampleTexts)}

ResultLists == UNION {[1..n -> ResultPool] : n \in 0..MaxResults}

(***************************************************************************)
(* IntentResult of the orchestrated engine (intent_recognition.core), as   *)
(* its recognizers construct it: intent, confidence, recognizer, slots,    *)
(* raw_matches, metadata.  A recognizer's "no opinion" is None.            *)
(***************************************************************************)
NoOpinion == [intent |-> "None"]

IsResult(r) == r.intent # "None"

\* the value of a field the constructor call leaves out
DefaultField == <<>>

EngineResult(intent, confidence, recognizer, slots, raw_matches, metadata) ==
    [intent |-> intent, confidence |-> confidence, recognizer |-> recognizer,
     slots |-> slots, raw_matches |-> raw_matches, metadata |-> metadata]

\* the default "unknown" result of the merge
UnknownResult == EngineResult("unknown", 0, "", DefaultField, DefaultField, DefaultField)

\* context.get(key, default)
Get(context, key, default) ==
    IF key \in DOMAIN context THEN context[key] ELSE default

(***************************************************************************)
(* ExcelIntentRecognizer (xw_intent_parse.py).                             *)
(***************************************************************************)
\* ExcelIntentRecognizer(config=None)
NoConfig == [has_excel_analyzer |-> FALSE]

\* a config whose excel_analyzer section declares two excel types, the
\* second without a sheet name
FileConfig ==
    [has_excel_analyzer |-> TRUE,
     default_excel_type |-> "merged",
     excel_types |->
        [ty \in {"merged", "standardized"} |->
            IF ty = "merged"
            THEN [k \in {"excel_path", "sheet_name"} |->
                    IF k = "excel_path" THEN "merged.xlsx" ELSE "Sheet1"]
            ELSE [k \in {"excel_path"} |-> "standardized.xlsx"]]]

\* self.default_excel_type and self.excel_types_config after __init__
default_excel_type(config) ==
    IF config.has_excel_analyzer THEN config.default_excel_type ELSE "merged"

excel_types_config(config) ==
    IF config.has_excel_analyzer THEN config.excel_types ELSE <<>>

\* ExcelReaches without the test of the trigger
ExcelReachesUntriggered(config, context) ==
    LET excel_type == Get(context, "excel_type", default_excel_type(config)) IN
    /\ excel_type \in DOMAIN excel_types_config(config)
    /\ LET type_config == excel_types_config(config)[excel_type] IN
       /\ Get(context, "execl_path", Get(type_config, "excel_path", "")) # ""
       /\ Get(context, "sheet_name", Get(type_config, "sheet_name", "")) # ""

\* parse gets as far as the read of the sheet: the trigger is set, the excel
\* type is configured, and the path and the sheet name are known
ExcelReaches(config, context) ==
    /\ Get(context, "trigger_excel", FALSE)
    /\ LET excel_type == Get(context, "excel_type", default_excel_type(config)) IN
       /\ excel_type \in DOMAIN excel_types_config(config)
       /\ LET type_config == excel_types_config(config)[excel_type] IN
          /\ Get(context, "execl_path", Get(type_config, "excel_path", "")) # ""
          /\ Get(context, "sheet_name", Get(type_config, "sheet_name", "")) # ""

\* parse with the except branch returning a result without data
ExcelParseKeepsResult(config, context, sheet) ==
    IF ~Get(context, "trigger_excel", FALSE) THEN NoOpinion
    ELSE LET excel_type == Get(context, "excel_type", default_excel_type(config)) IN
         IF excel_type \notin DOMAIN excel_types_config(config) THEN NoOpinion
         ELSE LET type_config == excel_types_config(config)[excel_type]
                  execl_path == Get(context, "execl_path", Get(type_config, "excel_path", ""))
                  sheet_name == Get(context, "sheet_name", Get(type_config, "sheet_name", ""))
              IN IF execl_path = "" \/ sheet_name = "" THEN NoOpinion
                 ELSE EngineResult("excel_interruption_analysis", 10,
                                   "ExcelIntentRecognizer", DefaultField, DefaultField,
                                   [execl_path |-> execl_path,
                                    sheet_name |-> sheet_name,
                                    excel_type |-> excel_type])

\* parse(text, context) of a recognizer made with config, when reading the
\* sheet succeeds (sheet = "readable") or raises (sheet = "unreadable")
ExcelParse(config, context, sheet) ==
    IF ~Get(context, "trigger_excel", FALSE) THEN NoOpinion
    ELSE LET excel_type == Get(context, "excel_type", default_excel_type(config)) IN
         IF excel_type \notin DOMAIN excel_types_config(config) THEN NoOpinion
         ELSE LET type_config == excel_types_config(config)[excel_type]
                  execl_path == Get(context, "execl_path", Get(type_config, "excel_path", ""))
                  sheet_name == Get(context, "sheet_name", Get(type_config, "sheet_name", ""))
              IN IF execl_path = "" \/ sheet_name = "" THEN NoOpinion
                 ELSE IF sheet = "unreadable" THEN NoOpinion
                 ELSE EngineResult("excel_interruption_analysis", 10,
                                   "ExcelIntentRecognizer", DefaultField, DefaultField,
                                   [execl_path |-> execl_path,
                                    sheet_name |-> sheet_name,
                                    excel_type |-> excel_type])

(***************************************************************************)
(* The orchestrator: RuleEngine.process behind IntentEngine.handle.        *)
(***************************************************************************)
\* the recognizers in descending priority: the Excel recognizer (200) before
\* the built-in pattern and keyword recognizers
Recognizers == <<"ExcelIntentRecognizer", "regex", "keyword">>

\* a wait without a deadline
no_deadline == 0 - 1

\* timeout_per_recognizer of IntentEngine, in tenths of a second
timeout_per_recognizer == 5

\* the pattern recognizer: an IntentResult, or None when nothing matches
PatternRecognizer(t) ==
    LET r == RegexParse(t) IN
    IF r.intent = "unknown" THEN NoOpinion
    ELSE EngineResult(r.intent, r.confidence, "regex", DefaultField,
                      r.matched_rules, DefaultField)

\* the keyword recognizer: an IntentResult, or None when nothing scores
KeywordRecognizer(t) ==
    LET r == KeywordParse(t) IN
    IF r.intent = "unknown" THEN NoOpinion
    ELSE EngineResult(r.intent, r.confidence, "keyword", DefaultField,
                      r.matched_rules, DefaultField)

\* what the call of recognizer number i returns when it returns
RecognizerParse(i, config, t, context, sheet) ==
    CASE Recognizers[i] = "ExcelIntentRecognizer" -> ExcelParse(config, context, sheet)
      [] Recognizers[i] = "regex" -> PatternRecognizer(t)
      [] Recognizers[i] = "keyword" -> KeywordRecognizer(t)

\* the merge policy on the list recorded for the recognizers
RECURSIVE Opinions(_)
Opinions(rs) ==
    IF rs = <<>> THEN <<>>
    ELSE IF IsResult(Head(rs)) /\ Head(rs).intent # "unknown"
         THEN <<Head(rs)>> \o Opinions(Tail(rs))
         ELSE Opinions(Tail(rs))

RECURSIVE FirstPatternOpinion(_)
FirstPatternOpinion(rs) ==
    IF rs = <<>> THEN NoOpinion
    ELSE IF Head(rs).recognizer = "regex" /\ Head(rs).confidence > 8 THEN Head(rs)
    ELSE FirstPatternOpinion(Tail(rs))

EngineMerge(rs) ==
    LET valid == Opinions(rs) IN
    IF valid = <<>> THEN UnknownResult
    ELSE IF IsResult(FirstPatternOpinion(valid)) THEN FirstPatternOpinion(valid)
    ELSE MaxByConfidence(valid, 2, valid[1])

\* the default pattern filler attaches the slots of the winning intent
FillSlots(r, t) == [r EXCEPT !.slots = extract_slots(t, r.intent)]

(***************************************************************************)
(* The slot fillers registered with the engine and the fallback filler     *)
(* (test_custom_slot_filler.py, test_advanced.py).                         *)
(***************************************************************************)
\* d[k] = v on a dict
Put(d, k, v) == [x \in (DOMAIN d) \cup {k} |-> IF x = k THEN v ELSE d[x]]

\* context or {}
OrEmpty(arg) == IF arg.isNone THEN <<>> ELSE arg.val

\* the mapping process works on is the caller's own object, not a new dict
Aliased(arg) == ~arg.isNone /\ arg.val # <<>>

\* CustomSlotFiller.fill_slots
CustomSlotFiller(intent_result, original_text, context) ==
    [intent_result EXCEPT
        !.slots = Put(Put(@, "processed_by", "custom_filler"),
                      "text_length", Len(original_text))]

\* LLMSlotFiller.fill_slots
LLMSlotFiller(intent_result, original_text, context) ==
    [intent_result EXCEPT
        !.slots = Put(Put(@, "processed_by", "llm_filler"), "llm_enhanced", TRUE),
        !.metadata = Put(@, "llm_used", TRUE)]

\* fill_slots of the registered filler of that name
NamedFill(name, intent_result, original_text, context) ==
    CASE name = "custom_filler" -> CustomSlotFiller(intent_result, original_text, context)
      [] name = "llm_filler" -> LLMSlotFiller(intent_result, original_text, context)

\* the extra_slot_fillers the engines of the tests are constructed with
FillerSets == {{}, {"custom_filler"}, {"custom_filler", "llm_filler"}}

\* SelectedFiller taking a registered filler when the one named is not
\* registered
SelectedFillerAnyRegistered(context, fillers) ==
    IF "slot_filler" \in DOMAIN context
    THEN IF context["slot_filler"] \in fillers THEN context["slot_filler"]
         ELSE IF fillers # {} THEN CHOOSE f \in fillers : TRUE
         ELSE "default"
    ELSE "default"

\* the filler process uses for a call: the registered filler the context
\* names, else the default chain
SelectedFiller(context, fillers) ==
    IF "slot_filler" \in DOMAIN context /\ context["slot_filler"] \in fillers
    THEN context["slot_filler"]
    ELSE "default"

\* the context names a filler that is not registered
UnknownFillerNamed(context, fillers) ==
    "slot_filler" \in DOMAIN context /\ context["slot_filler"] \notin fillers

\* the slots the config declares required, per intent
required_slots ==
    [i \in {"query_order", "refund", "issue_invoice", "book_flight"} |->
        CASE i = "query_order" -> {"order_id"}
          [] i = "refund" -> {"order_id"}
          [] i = "issue_invoice" -> {}
          [] i = "book_flight" -> {"departure_city", "arrival_city"}]

\* MissingSlots counting a slot as missing whether the result carries it or
\* not, and one slot as missing for an intent without required slots
MissingSlotsUnchecked(r) ==
    IF r.intent \in DOMAIN required_slots /\ required_slots[r.intent] # {}
    THEN required_slots[r.intent]
    ELSE {"any"}

\* the required slots of the result's intent it does not carry
MissingSlots(r) ==
    IF r.intent \in DOMAIN required_slots
    THEN required_slots[r.intent] \ DOMAIN r.slots
    ELSE {}

\* \w on the characters of the texts: everything but punctuation
Word == UNION {{SampleTexts[j][k] : k \in 1..Len(SampleTexts[j])} :
                  j \in 1..Len(SampleTexts)} \ {",", "."}

\* OpenAISlotFiller.fill_missing_slots
fill_missing_slots(t, intent_name, current_slots) ==
    IF intent_name = "book_flight"
    THEN LET dep == re_search(<<Lit("cong"), Open, Rep(Word, 1, -1, TRUE), Close>>, t)
             arr == re_search(<<Lit("dao"), Open, Rep(Word, 1, -1, TRUE), Close>>, t)
             with_dep == IF "departure_city" \notin DOMAIN current_slots /\ dep.ok
                         THEN Put(current_slots, "departure_city", Group1(t, dep))
                         ELSE current_slots
         IN IF "arrival_city" \notin DOMAIN with_dep /\ arr.ok
            THEN Put(with_dep, "arrival_city", Group1(t, arr))
            ELSE with_dep
    ELSE current_slots

\* llm_timeout of the SlotFiller, in tenths of a second
llm_timeout == 20

(***************************************************************************)
(* The calls.                                                              *)
(***************************************************************************)
NoValue == [intent |-> "none"]

EngineTexts == {SampleTexts[2], SampleTexts[5], SampleTexts[6]}

\* contexts of the __main__ test cases of xw_intent_parse.py, the empty
\* context, a context with the trigger False, and a context that names a
\* sheet for the second excel type
EngineContexts ==
    { <<>>,
      [k \in {"excel_type"} |-> "merged"],
      [k \in {"trigger_excel", "excel_type"} |->
          IF k = "trigger_excel" THEN FALSE ELSE "merged"],
      [k \in {"trigger_excel", "excel_type"} |->
          IF k = "trigger_excel" THEN TRUE ELSE "merged"],
      [k \in {"trigger_excel", "excel_type"} |->
          IF k = "trigger_excel" THEN TRUE ELSE "standardized"],
      [k \in {"trigger_excel", "excel_type", "execl_path", "sheet_name"} |->
          CASE k = "trigger_excel" -> TRUE
            [] k = "excel_type" -> "standardized"
            [] k = "execl_path" -> "other.xlsx"
            [] k = "sheet_name" -> "Sheet1"] }

Fates == {"returns", "raises", "hangs"}

\* the texts of the calls that look at slot filling: an order number given,
\* an intent without required slots, a required slot missing, no intent
FillTexts == {SampleTexts[1], SampleTexts[3], SampleTexts[5], SampleTexts[6]}

\* the context arguments of the slot filler tests
FillArgs ==
    { None,
      Some([k \in {"slot_filler"} |-> "custom_filler"]),
      Some([k \in {"slot_filler"} |-> "llm_filler"]),
      Some([k \in {"slot_filler"} |-> "non_existent_filler"]) }

\* every recognizer answers
AllReturn == [i \in 1..Len(Recognizers) |-> "returns"]

\* no call made yet
NoRequest == [op |-> "none"]

\* no call on the FSM yet
FsmIdle ==
    /\ current_state = "start"
    /\ fsm_request = NoRequest

\* the hook has not been asked
NotAsked == [intent |-> "not asked"]

\* process has not asked the context hook
HookIdle == e_hook = NotAsked

\* the ids the clients use
SessionIds == {"s1", "s2"}

\* the /chat requests that can be in progress at a time
Requests == {1, 2}

\* no request is being served in this place
NoChat == [pc |-> "free"]

\* a SessionManager nobody has called, constructed with the default length
StoreIdle ==
    /\ sessions = <<>>
    /\ last_activity = <<>>
    /\ max_history_length = 10
    /\ clock = 0
    /\ chat = [r \in Requests |-> NoChat]
    /\ sent = 0
    /\ store_request = NoRequest
    /\ added = [sid \in SessionIds |-> <<>>]

\* a WorkflowRegistry nobody has called
RegistryIdle ==
    /\ registry = <<>>
    /\ definitions = <<>>
    /\ nodes_map = <<>>
    /\ wf_request = NoRequest
    /\ wf_live = {}

RestIdle ==
    /\ FsmIdle
    /\ HookIdle
    /\ StoreIdle
    /\ RegistryIdle

ChainIdle ==
    /\ op = "idle"
    /\ text = <<>>
    /\ slot_intent = ""
    /\ calls = <<>>
    /\ results = <<>>
    /\ scores = <<>>
    /\ final_result = NoValue
    /\ ret = NoValue

\* what a call starts from
CallStart ==
    /\ e_pc = "next"
    /\ e_i = 1
    /\ e_elapsed = 0
    /\ e_collected = <<>>
    /\ e_outcome = <<>>
    /\ e_log = <<>>
    /\ e_ret = NoValue
    /\ e_merged = NoValue
    /\ e_selected = "none"
    /\ e_filled = NoValue
    /\ e_slots = <<>>
    /\ e_fallback = "not called"
    /\ e_reads = 0

EngineIdle ==
    /\ e_config = NoConfig
    /\ e_text = <<>>
    /\ e_arg = None
    /\ e_context = <<>>
    /\ e_sheet = "readable"
    /\ e_fate = <<>>
    /\ e_fillers = {}
    /\ e_llm = "absent"
    /\ e_turn = 0
    /\ e_prev = NoValue
    /\ e_pc = "idle"
    /\ e_i = 0
    /\ e_elapsed = 0
    /\ e_collected = <<>>
    /\ e_outcome = <<>>
    /\ e_log = <<>>
    /\ e_ret = NoValue
    /\ e_merged = NoValue
    /\ e_selected = "none"
    /\ e_filled = NoValue
    /\ e_slots = <<>>
    /\ e_fallback = "not called"
    /\ e_reads = 0

\* a call of the chain is about to be made, with its argument chosen
Init ==
    /\ \/ op = "call invoke" /\ text \in Texts /\ slot_intent = "" /\ results = <<>>
       \/ op = "call merge" /\ text = <<>> /\ slot_intent = "" /\ results \in ResultLists
       \/ op = "call extract_slots" /\ text \in SlotTexts /\ slot_intent \in SlotIntents
          /\ results = <<>>
    /\ calls = <<>>
    /\ scores = <<>>
    /\ final_result = NoValue
    /\ ret = NoValue
    /\ EngineIdle
    /\ RestIdle

\* invoke answering "unknown" for a text it has answered before
InvokeOnce ==
    /\ op = "call invoke"
    /\ op' = "invoke"
    /\ results' = <<RegexParse(text), KeywordParse(text)>>
    /\ scores' = KeywordScores(text)
    /\ final_result' = _merge_results(<<RegexParse(text), KeywordParse(text)>>)
    /\ ret' = IF \E j \in 1..Len(calls) : calls[j].text = text
              THEN InvokeResult(<<>>) ELSE InvokeResult(text)
    /\ calls' = Append(calls, [text |-> text, ret |-> ret'])
    /\ UNCHANGED <<text, slot_intent, engine_vars, rest_vars>>

\* RuleBasedIntentChain.invoke({"text": text})
Invoke ==
    /\ op = "call invoke"
    /\ op' = "invoke"
    /\ results' = <<RegexParse(text), KeywordParse(text)>>
    /\ scores' = KeywordScores(text)
    /\ final_result' = _merge_results(<<RegexParse(text), KeywordParse(text)>>)
    /\ ret' = InvokeResult(text)
    /\ calls' = Append(calls, [text |-> text, ret |-> InvokeResult(text)])
    /\ UNCHANGED <<text, slot_intent, engine_vars, rest_vars>>

\* the caller goes on to the next text of its list, as main() does with its
\* test cases and its batch
InvokeNext ==
    /\ op = "invoke"
    /\ Len(calls) < MaxCalls
    /\ text \in SampleSet
    /\ op' = "call invoke"
    /\ text' \in SampleSet
    /\ UNCHANGED <<slot_intent, calls, results, scores, final_result, ret, engine_vars, rest_vars>>

\* RuleBasedIntentChain._merge_results(results)
Merge ==
    /\ op = "call merge"
    /\ op' = "merge"
    /\ final_result' = _merge_results(results)
    /\ ret' = _merge_results(results)
    /\ UNCHANGED <<text, slot_intent, calls, results, scores, engine_vars, rest_vars>>

\* SlotExtractor.extract_slots(text, intent)
ExtractSlots ==
    /\ op = "call extract_slots"
    /\ op' = "extract_slots"
    /\ ret' = extract_slots(text, slot_intent)
    /\ UNCHANGED <<text, slot_intent, calls, results, scores, final_result, engine_vars, rest_vars>>

Next == Invoke \/ InvokeNext \/ Merge \/ ExtractSlots

Spec == Init /\ [][Next]_vars

(***************************************************************************)
(* handle(e_text, e_arg), that is process(e_text, e_arg or {}), of an      *)
(* engine holding the three recognizers.  The environment is chosen with   *)
(* the call: whether the sheet can be read, for each recognizer whether    *)
(* its call returns, raises or hangs, and the same for the fallback        *)
(* filler.  The Excel recognizer catches what reading the sheet raises     *)
(* itself.                                                                 *)
(***************************************************************************)
\* calls that look at the recognizers: an engine without extra fillers
InitRecognition ==
    /\ e_config \in {NoConfig, FileConfig}
    /\ e_text \in EngineTexts
    /\ e_arg \in {None} \cup {Some(c) : c \in EngineContexts}
    /\ e_sheet \in {"readable", "unreadable"}
    /\ e_fate \in [1..Len(Recognizers) -> Fates]
    /\ e_fate[1] # "raises"
    /\ e_fillers = {}
    /\ e_llm = "absent"

\* calls that look at slot filling: every recognizer answers
InitFilling ==
    /\ e_config = NoConfig
    /\ e_text \in FillTexts
    /\ e_arg \in FillArgs
    /\ e_sheet = "readable"
    /\ e_fate = AllReturn
    /\ e_fillers \in FillerSets
    /\ e_llm \in {"absent"} \cup Fates

InitEngine ==
    /\ ChainIdle
    /\ RestIdle
    /\ InitRecognition \/ InitFilling
    /\ e_context = OrEmpty(e_arg)
    /\ e_turn = 1
    /\ e_prev = NoValue
    /\ CallStart

\* process hands the next recognizer to a worker and waits for it
StartRecognizer ==
    /\ e_pc = "next"
    /\ e_i <= Len(Recognizers)
    /\ e_pc' = "running"
    /\ e_elapsed' = 0
    /\ UNCHANGED <<chain_vars, rest_vars, e_call, e_i, e_collected, e_outcome, e_log, e_ret,
                   e_merged, e_selected, e_filled, e_slots, e_fallback, e_reads>>

\* time passes while the call runs
Tick ==
    /\ e_pc = "running"
    /\ e_elapsed < timeout_per_recognizer
    /\ e_elapsed' = e_elapsed + 1
    /\ UNCHANGED <<chain_vars, rest_vars, e_call, e_pc, e_i, e_collected, e_outcome, e_log,
                   e_ret, e_merged, e_selected, e_filled, e_slots, e_fallback,
                   e_reads>>

\* process goes on to the next recognizer having recorded r for this one
Record(r, how, line) ==
    /\ e_collected' = Append(e_collected, r)
    /\ e_outcome' = Append(e_outcome, how)
    /\ e_log' = e_log \o line
    /\ e_i' = e_i + 1
    /\ e_pc' = "next"
    /\ e_elapsed' = 0
    /\ UNCHANGED <<chain_vars, rest_vars, e_call, e_ret, e_merged, e_selected, e_filled,
                   e_slots, e_fallback>>

\* recognizer number i, called with this context, gets as far as reading
\* the sheet
ReadsSheet(i, config, context) ==
    /\ Recognizers[i] = "ExcelIntentRecognizer"
    /\ ExcelReaches(config, context)

\* the call returns within the timeout
RecognizerReturns ==
    /\ e_pc = "running"
    /\ e_fate[e_i] = "returns"
    /\ e_reads' = IF ReadsSheet(e_i, e_config, e_context) THEN e_reads + 1 ELSE e_reads
    /\ Record(RecognizerParse(e_i, e_config, e_text, e_context, e_sheet),
              "returned", <<>>)

\* the call raises: logged, recorded as no opinion
RecognizerRaises ==
    /\ e_pc = "running"
    /\ e_fate[e_i] = "raises"
    /\ e_reads' = e_reads
    /\ Record(NoOpinion, "raised", << <<"error", Recognizers[e_i]>> >>)

\* the timeout expires before the call has returned: the call is abandoned,
\* logged, and recorded as no opinion; the abandoned call may have read the
\* sheet by then if it gets that far
RecognizerTimeout ==
    /\ e_pc = "running"
    /\ e_elapsed = timeout_per_recognizer
    /\ e_reads' \in IF ReadsSheet(e_i, e_config, e_context)
                     THEN {e_reads, e_reads + 1} ELSE {e_reads}
    /\ Record(NoOpinion, "timeout", << <<"timeout", Recognizers[e_i]>> >>)

\* every recognizer has run: merge
MergeStep ==
    /\ e_pc = "next"
    /\ e_i > Len(Recognizers)
    /\ e_merged' = EngineMerge(e_collected)
    /\ e_pc' = "select"
    /\ UNCHANGED <<chain_vars, rest_vars, e_call, e_i, e_elapsed, e_collected, e_outcome,
                   e_log, e_ret, e_selected, e_filled, e_slots, e_fallback, e_reads>>

\* SelectFiller keeping the filler the call before this one used
SelectFillerSticky ==
    /\ e_pc = "select"
    /\ e_selected' = IF e_prev # NoValue /\ e_prev.selected # "default"
                      THEN e_prev.selected
                      ELSE SelectedFiller(e_context, e_fillers)
    /\ e_log' = e_log
    /\ e_pc' = "fill"
    /\ UNCHANGED <<chain_vars, rest_vars, e_call, e_i, e_elapsed, e_collected, e_outcome,
                   e_ret, e_merged, e_filled, e_slots, e_fallback, e_reads>>

\* the filler for this call is looked up by the name the context gives; a
\* name that is not registered is logged as a warning
SelectFiller ==
    /\ e_pc = "select"
    /\ e_selected' = SelectedFiller(e_context, e_fillers)
    /\ e_log' = IF UnknownFillerNamed(e_context, e_fillers)
                 THEN Append(e_log, <<"warning", e_context["slot_filler"]>>)
                 ELSE e_log
    /\ e_pc' = "fill"
    /\ UNCHANGED <<chain_vars, rest_vars, e_call, e_i, e_elapsed, e_collected, e_outcome,
                   e_ret, e_merged, e_filled, e_slots, e_fallback, e_reads>>

\* RunFiller running the default pattern filler first and the named filler
\* on its result
RunFillerAfterDefault ==
    /\ e_pc = "fill"
    /\ LET filled == IF e_selected = "default" THEN FillSlots(e_merged, e_text)
                     ELSE NamedFill(e_selected, FillSlots(e_merged, e_text),
                                    e_text, e_context)
       IN /\ e_filled' = filled
          /\ e_slots' = filled.slots
          /\ e_pc' = IF e_llm # "absent" /\ MissingSlots(filled) # {}
                     THEN "fallback" ELSE "return"
    /\ e_elapsed' = 0
    /\ UNCHANGED <<chain_vars, rest_vars, e_call, e_i, e_collected, e_outcome, e_log, e_ret,
                   e_merged, e_selected, e_fallback, e_reads>>

\* the selected filler fills the slots; the fallback filler is called if
\* there is one and a required slot is still missing
RunFiller ==
    /\ e_pc = "fill"
    /\ LET filled == IF e_selected = "default" THEN FillSlots(e_merged, e_text)
                     ELSE NamedFill(e_selected, e_merged, e_text, e_context)
       IN /\ e_filled' = filled
          /\ e_slots' = filled.slots
          /\ e_pc' = IF e_llm # "absent" /\ MissingSlots(filled) # {}
                     THEN "fallback" ELSE "return"
    /\ e_elapsed' = 0
    /\ UNCHANGED <<chain_vars, rest_vars, e_call, e_i, e_collected, e_outcome, e_log, e_ret,
                   e_merged, e_selected, e_fallback, e_reads>>

\* time passes while the fallback call runs
FallbackTick ==
    /\ e_pc = "fallback"
    /\ e_elapsed < llm_timeout
    /\ e_elapsed' = e_elapsed + 1
    /\ UNCHANGED <<chain_vars, rest_vars, e_call, e_pc, e_i, e_collected, e_outcome, e_log,
                   e_ret, e_merged, e_selected, e_filled, e_slots, e_fallback,
                   e_reads>>

\* the fallback call is over: how is what became of it
FallbackOver(how, slots, line) ==
    /\ e_fallback' = how
    /\ e_slots' = slots
    /\ e_log' = e_log \o line
    /\ e_pc' = "return"
    /\ e_elapsed' = 0
    /\ UNCHANGED <<chain_vars, rest_vars, e_call, e_i, e_collected, e_outcome, e_ret,
                   e_merged, e_selected, e_filled, e_reads>>

\* FallbackRaises losing the slots extracted so far
FallbackRaisesLosingSlots ==
    /\ e_pc = "fallback"
    /\ e_llm = "raises"
    /\ FallbackOver("raised", <<>>, << <<"error", "fallback">> >>)

\* the fallback filler returns the augmented slots within the timeout
FallbackReturns ==
    /\ e_pc = "fallback"
    /\ e_llm = "returns"
    /\ FallbackOver("returned",
                    fill_missing_slots(e_text, e_filled.intent, e_filled.slots),
                    <<>>)

\* the fallback filler raises: logged, the slots are kept
FallbackRaises ==
    /\ e_pc = "fallback"
    /\ e_llm = "raises"
    /\ FallbackOver("raised", e_filled.slots, << <<"error", "fallback">> >>)

\* the fallback call has not returned at its timeout: logged, the slots
\* are kept
FallbackTimeout ==
    /\ e_pc = "fallback"
    /\ e_elapsed = llm_timeout
    /\ FallbackOver("timeout", e_filled.slots, << <<"timeout", "fallback">> >>)

\* Finish writing the winning intent into the caller's mapping
FinishWritingContext ==
    /\ e_pc = "return"
    /\ e_ret' = [e_filled EXCEPT !.slots = e_slots]
    /\ e_pc' = "done"
    /\ e_context' = Put(e_context, "last_intent", e_filled.intent)
    /\ e_arg' = IF Aliased(e_arg)
                 THEN Some(Put(e_context, "last_intent", e_filled.intent))
                 ELSE e_arg
    /\ UNCHANGED <<chain_vars, rest_vars, e_config, e_text, e_sheet, e_fate, e_fillers, e_llm,
                   e_turn, e_prev, e_i, e_elapsed, e_collected, e_outcome, e_log,
                   e_merged, e_selected, e_filled, e_slots, e_fallback, e_reads>>

\* process returns the result with the slots attached
Finish ==
    /\ e_pc = "return"
    /\ e_ret' = [e_filled EXCEPT !.slots = e_slots]
    /\ e_pc' = "done"
    /\ UNCHANGED <<chain_vars, rest_vars, e_call, e_i, e_elapsed, e_collected, e_outcome,
                   e_log, e_merged, e_selected, e_filled, e_slots, e_fallback,
                   e_reads>>

NextEngine ==
    \/ StartRecognizer
    \/ Tick
    \/ RecognizerReturns
    \/ RecognizerRaises
    \/ RecognizerTimeout
    \/ MergeStep
    \/ SelectFiller
    \/ RunFiller
    \/ FallbackTick
    \/ FallbackReturns
    \/ FallbackRaises
    \/ FallbackTimeout
    \/ Finish

SpecEngine == InitEngine /\ [][NextEngine]_vars

\* the engine's own steps are taken when they can be; a call of a recognizer
\* or of the fallback filler need never return
SpecEngineLive ==
    /\ InitEngine
    /\ [][NextEngine]_vars
    /\ WF_vars(StartRecognizer)
    /\ WF_vars(Tick)
    /\ WF_vars(RecognizerRaises)
    /\ WF_vars(RecognizerTimeout)
    /\ WF_vars(MergeStep)
    /\ WF_vars(SelectFiller)
    /\ WF_vars(RunFiller)
    /\ WF_vars(FallbackTick)
    /\ WF_vars(FallbackRaises)
    /\ WF_vars(FallbackTimeout)
    /\ WF_vars(Finish)

(***************************************************************************)
(* Several calls on one engine, as the tests and the command loop of       *)
(* main.py make them: the engine and its environment stay, the caller      *)
(* gives the next context.                                                 *)
(***************************************************************************)
\* the engine of test_multiple_slot_fillers: both extra fillers, no fallback
\* filler; an order number given, and a required slot missing
SessionTexts == {SampleTexts[1], SampleTexts[5]}

InitSession ==
    /\ ChainIdle
    /\ RestIdle
    /\ e_config = NoConfig
    /\ e_text \in SessionTexts
    /\ e_arg \in FillArgs
    /\ e_sheet = "readable"
    /\ e_fate = AllReturn
    /\ e_fillers = {"custom_filler", "llm_filler"}
    /\ e_llm = "absent"
    /\ e_context = OrEmpty(e_arg)
    /\ e_turn = 1
    /\ e_prev = NoValue
    /\ CallStart

\* ctx["last_intent"] = result.intent of the command loop
WithLastIntent(arg, result) == Some(Put(OrEmpty(arg), "last_intent", result.intent))

\* the caller makes the next call on the engine: with one of the contexts of
\* the tests, or with its own context after writing last_intent into it
NextCall ==
    /\ e_pc = "done"
    /\ e_turn < MaxTurns
    /\ e_arg' \in FillArgs \cup {WithLastIntent(e_arg, e_ret)}
    /\ e_context' = OrEmpty(e_arg')
    /\ e_turn' = e_turn + 1
    /\ e_prev' = [context |-> e_context, outcome |-> e_outcome,
                  fallback |-> e_fallback, selected |-> e_selected,
                  intent |-> e_ret.intent, confidence |-> e_ret.confidence,
                  slots |-> e_ret.slots]
    /\ e_pc' = "next"
    /\ e_i' = 1
    /\ e_elapsed' = 0
    /\ e_collected' = <<>>
    /\ e_outcome' = <<>>
    /\ e_log' = <<>>
    /\ e_ret' = NoValue
    /\ e_merged' = NoValue
    /\ e_selected' = "none"
    /\ e_filled' = NoValue
    /\ e_slots' = <<>>
    /\ e_fallback' = "not called"
    /\ e_reads' = 0
    /\ UNCHANGED <<chain_vars, rest_vars, e_config, e_text, e_sheet, e_fate, e_fillers, e_llm>>

\* the steps of these calls: no recognizer raises, and there is no fallback
\* filler to call
NextSession ==
    \/ StartRecognizer
    \/ Tick
    \/ RecognizerReturns
    \/ RecognizerTimeout
    \/ MergeStep
    \/ SelectFiller
    \/ RunFiller
    \/ Finish
    \/ NextCall

SpecSession == InitSession /\ [][NextSession]_vars

(***************************************************************************)
(* Properties of the merge step.                                           *)
(***************************************************************************)
Returned == op \in {"invoke", "merge"}

FirstOf(S) == CHOOSE j \in S : \A k \in S : j <= k

\* a result a pattern recognizer made: its rule id begins with "regex"
FromPattern(r) == r.matched_rules # <<>> /\ r.matched_rules[1][1] = "regex"

\* the positions of the non-unknown results
ValidAt(rs) == {j \in 1..Len(rs) : rs[j].intent # "unknown"}

\* the positions of the non-unknown pattern results with confidence > 0.8
PatternHits(rs) ==
    {j \in ValidAt(rs) : FromPattern(rs[j]) /\ rs[j].confidence > 8}

\* the positions of the non-unknown results of maximum confidence
MaxAt(rs) ==
    {j \in ValidAt(rs) : \A k \in ValidAt(rs) : rs[k].confidence <= rs[j].confidence}

\* C1: when some non-unknown pattern result has confidence > 0.8, the merge
\* returns the first such result of the list, whatever the other results are
C1_PatternFirst ==
    (Returned /\ PatternHits(results) # {})
        => final_result = results[FirstOf(PatternHits(results))]

\* a merge of a list where a non-pattern result of higher confidence and of
\* another intent stands before the first pattern hit, and a second pattern
\* hit of yet another intent after it
C1_Witness ==
    /\ op = "merge"
    /\ PatternHits(results) # {}
    /\ LET f == FirstOf(PatternHits(results)) IN
       /\ final_result = results[f]
       /\ \E k \in 1..(f - 1) :
            /\ ~FromPattern(results[k])
            /\ results[k].confidence > results[f].confidence
            /\ results[k].intent # results[f].intent
       /\ \E k \in PatternHits(results) :
            k > f /\ results[k].intent # results[f].intent

\* C2: without a pattern result of confidence > 0.8, the merge returns the
\* first result of the list among the non-unknown results of maximum confidence
C2_MaxConfidenceFirst ==
    (Returned /\ PatternHits(results) = {} /\ ValidAt(results) # {})
        => /\ final_result = results[FirstOf(MaxAt(results))]
           /\ final_result.intent # "unknown"
           /\ \A k \in ValidAt(results) :
                results[k].confidence <= final_result.confidence

\* a merge where two results of different intents share the maximum
C2_Witness ==
    /\ op = "merge"
    /\ PatternHits(results) = {}
    /\ \E j, k \in MaxAt(results) :
         /\ j < k
         /\ results[j].intent # results[k].intent
         /\ final_result = results[j]
    /\ \E k \in ValidAt(results) : k \notin MaxAt(results)

\* C3: when both recognizers return "unknown", invoke returns intent
\* "unknown", confidence 0.0, no matched rules and no slots
C3_UnknownResult ==
    (op = "invoke" /\ ValidAt(results) = {})
        => /\ ret.intent = "unknown"
           /\ ret.confidence = 0
           /\ ret.matched_rules = <<>>
           /\ ret.slots = <<>>

\* invoke of the sixth test case has returned, and neither recognizer matched
C3_Witness ==
    /\ op = "invoke"
    /\ text = SampleTexts[6]
    /\ ValidAt(results) = {}
    /\ ret.intent = "unknown"

(***************************************************************************)
(* Properties of the keyword recognizer.                                   *)
(***************************************************************************)
\* how many words of the list ws occur in t
Hits(t, ws) == Cardinality({j \in 1..Len(ws) : Contains(t, ws[j])})

\* 0.8 for every primary and 0.4 for every secondary keyword of i in t
WeightSum(t, i) ==
    8 * Hits(t, keywords[i].primary) + 4 * Hits(t, keywords[i].secondary)

\* C7: the score of every intent is min(1.0, the weights of its keywords that
\* occur in the text); an intent without any scores nothing; two secondary
\* keywords alone give 0.8; the confidence reported is at most 1.0
C7_KeywordScore ==
    op = "invoke" =>
        /\ \A i \in DOMAIN keywords :
             /\ i \in DOMAIN scores <=> WeightSum(text, i) > 0
             /\ i \in DOMAIN scores =>
                  scores[i].score = Min(10, WeightSum(text, i))
             /\ (Hits(text, keywords[i].primary) = 0
                   /\ Hits(text, keywords[i].secondary) = 2)
                  => scores[i].score = 8
        /\ results[2].confidence <= 10

\* an intent whose keywords in the text weigh more than 1.0 is scored 1.0
C7_Witness ==
    /\ op = "invoke"
    /\ \E i \in DOMAIN scores :
         /\ WeightSum(text, i) > 10
         /\ scores[i].score = 10
         /\ results[2].intent = i
         /\ results[2].confidence = 10

\* the intents of maximum score, as positions of the declaration order
BestAt(sc) ==
    {ii \in 1..Len(IntentOrder) :
        /\ IntentOrder[ii] \in DOMAIN sc
        /\ \A k \in DOMAIN sc : sc[k].score <= sc[IntentOrder[ii]].score}

\* C8: the keyword recognizer returns the first-declared intent among those
\* of the highest score, with that score, and no match when none scores
C8_KeywordWinner ==
    op = "invoke" =>
        IF DOMAIN scores = {}
        THEN results[2] = DefaultIntentResult
        ELSE /\ results[2].intent = IntentOrder[FirstOf(BestAt(scores))]
             /\ results[2].confidence = scores[results[2].intent].score
             /\ results[2].confidence > 0

\* two intents share the highest score and the first-declared one is returned
C8_Witness ==
    /\ op = "invoke"
    /\ \E a, b \in BestAt(scores) :
         a < b /\ results[2].intent = IntentOrder[a]

(***************************************************************************)
(* Properties of the pattern recognizer.                                   *)
(***************************************************************************)
\* the (intent number, pattern number) pairs whose pattern matches t
MatchingPatterns(t) ==
    {m \in (1..Len(IntentOrder)) \X (1..3) :
        /\ m[2] <= Len(patterns[IntentOrder[m[1]]])
        /\ re_search(patterns[IntentOrder[m[1]]][m[2]], t).ok}

\* the first of them in declaration order
FirstPattern(M) ==
    CHOOSE m \in M : \A n \in M : m[1] < n[1] \/ (m[1] = n[1] /\ m[2] <= n[2])

\* C9: the pattern recognizer returns the first matching pattern in
\* declaration order of intents and patterns, with confidence 0.9 and the rule
\* id of that intent and pattern index; the second test case yields refund
C9_FirstPatternWins ==
    op = "invoke" =>
        /\ IF MatchingPatterns(text) = {}
           THEN results[1].intent = "unknown"
           ELSE LET m == FirstPattern(MatchingPatterns(text)) IN
                /\ results[1].intent = IntentOrder[m[1]]
                /\ results[1].confidence = 9
                /\ results[1].matched_rules =
                     <<RegexRule(IntentOrder[m[1]], m[2] - 1)>>
        /\ text = SampleTexts[2] =>
             /\ results[1].intent = "refund"
             /\ ret.intent = "refund"
             /\ ret.confidence = 9

\* patterns of two intents match, the later-declared one further left in the
\* text, and the earlier-declared intent is returned
C9_Witness ==
    /\ op = "invoke"
    /\ \E m, n \in MatchingPatterns(text) :
         /\ m[1] < n[1]
         /\ re_search(patterns[IntentOrder[n[1]]][n[2]], text).s
              < re_search(patterns[IntentOrder[m[1]]][m[2]], text).s
         /\ m = FirstPattern(MatchingPatterns(text))
         /\ results[1].intent = IntentOrder[m[1]]

(***************************************************************************)
(* The fifth test case of main().                                          *)
(***************************************************************************)
\* C10, as claimed: invoke of the fifth test case returns query_order from
\* the keyword recognizer with confidence 0.4
C10_AsClaimed ==
    (op = "invoke" /\ text = SampleTexts[5])
        => /\ ret.intent = "query_order"
           /\ ret.matched_rules = <<KeywordRule("query_order")>>
           /\ ret.confidence = 4

\* C10, amended: invoke of the fifth test case returns query_order from the
\* keyword recognizer with confidence 0.8: the two secondary keywords kuaidi
\* and daolema are counted
C10_TwoSecondaryKeywords ==
    (op = "invoke" /\ text = SampleTexts[5])
        => /\ ret.intent = "query_order"
           /\ ret.matched_rules = <<KeywordRule("query_order")>>
           /\ results[1].intent = "unknown"
           /\ ret.confidence = 8
           /\ ret.extracted_entities =
                Some(<< <<"kuai", "di">>, <<"dao", "le", "ma">> >>)

C10_Witness ==
    /\ op = "invoke"
    /\ text = SampleTexts[5]
    /\ ret.intent = "query_order"
    /\ scores["query_order"].score = 8

(***************************************************************************)
(* Properties of the results and of the orchestrator.                      *)
(***************************************************************************)
\* unknown iff confidence 0.0 iff no evidence
WellFormed(r) ==
    /\ r.intent = "unknown" <=> r.confidence = 0
    /\ r.confidence = 0 <=> r.raw_matches = <<>>

\* C4, as claimed: every IntentResult a recognizer produced, and the one
\* process returned, is unknown iff its confidence is 0.0 iff it carries no
\* evidence
C4_AsClaimed ==
    /\ \A j \in 1..Len(e_collected) :
         IsResult(e_collected[j]) => WellFormed(e_collected[j])
    /\ e_pc = "done" => WellFormed(e_ret)

\* the Excel recognizer was to read a sheet and reading it raised
ExcelReadFails(i) ==
    Recognizers[i] = "ExcelIntentRecognizer" /\ e_sheet = "unreadable"

\* what a recognizer contributes: its result if its call came back in time
\* and did not fail inside, no opinion otherwise
Contribution(i) ==
    IF e_outcome[i] = "returned" /\ ~ExcelReadFails(i)
    THEN RecognizerParse(i, e_config, e_text, e_context, e_sheet)
    ELSE NoOpinion

\* C5: when process is done it has returned a result, every recognizer has
\* been run, a recognizer that raised or timed out is recorded as no opinion,
\* and the result is the merge of what the healthy recognizers returned
C5_FailureIsolated ==
    e_pc = "done" =>
        /\ IsResult(e_ret) /\ e_ret # NoValue
        /\ Len(e_outcome) = Len(Recognizers)
        /\ \A i \in 1..Len(Recognizers) :
             (e_outcome[i] # "returned" \/ ExcelReadFails(i))
                => e_collected[i] = NoOpinion
        /\ e_merged = EngineMerge([i \in 1..Len(Recognizers) |-> Contribution(i)])
        /\ e_ret.intent = e_merged.intent
        /\ e_ret.confidence = e_merged.confidence
        /\ e_ret.recognizer = e_merged.recognizer

\* the Excel recognizer failed to read its sheet, the pattern recognizer
\* raised or timed out on a text it matches, and the result is the one of the
\* keyword recognizer after them
C5_Witness ==
    /\ e_pc = "done"
    /\ Get(e_context, "trigger_excel", FALSE)
    /\ e_sheet = "unreadable"
    /\ IsResult(ExcelParse(e_config, e_context, "readable"))
    /\ e_outcome[1] = "returned"
    /\ e_outcome[2] \in {"raised", "timeout"}
    /\ IsResult(PatternRecognizer(e_text))
    /\ e_outcome[3] = "returned"
    /\ e_ret.recognizer = "keyword"
    /\ e_ret.intent = KeywordRecognizer(e_text).intent

\* C6: every call of process returns
C6_ProcessReturns == <>(e_pc = "done" /\ Len(e_outcome) = Len(Recognizers))

\* process has returned although a recognizer's call never did: that call
\* was abandoned at the timeout, and a recognizer after it gave the result
C6_Witness ==
    /\ e_pc = "done"
    /\ \E i \in 1..Len(Recognizers) :
         /\ e_fate[i] = "hangs"
         /\ e_outcome[i] = "timeout"
         /\ \E k \in (i + 1)..Len(Recognizers) :
              /\ e_outcome[k] = "returned"
              /\ IsResult(e_collected[k])
              /\ e_ret.recognizer = Recognizers[k]

(***************************************************************************)
(* Properties of the slot extractor.                                       *)
(***************************************************************************)
\* the slot names the intent i declares a pattern for
SlotNames(i) == IF i \in DOMAIN slot_patterns THEN DOMAIN slot_patterns[i] ELSE {}

\* the pattern of slot n of intent i is found somewhere in t
SlotMatches(t, i, n) == re_search(slot_patterns[i][n], t).ok

\* C11: extract_slots returns a mapping whose keys are exactly the slots of
\* the intent whose pattern matches the text, each with the first capture
\* group of its match as value; a slot whose pattern does not match is not a
\* key; the seventh test case with issue_invoice gives exactly amount "1000"
C11_SlotsAreMatches ==
    (op = "extract_slots")
        => /\ DOMAIN ret = {n \in SlotNames(slot_intent) : SlotMatches(text, slot_intent, n)}
           /\ \A n \in DOMAIN ret :
                LET m == re_search(slot_patterns[slot_intent][n], text) IN
                ret[n] = Group1(text, m)
           /\ (text = SampleTexts[7] /\ slot_intent = "issue_invoice")
                => ret = [n \in {"amount"} |-> <<"1", "0", "0", "0">>]

\* extract_slots of the seventh test case with issue_invoice has returned:
\* the amount pattern matched, the order_id pattern did not and is no key
C11_Witness ==
    /\ op = "extract_slots"
    /\ text = SampleTexts[7]
    /\ slot_intent = "issue_invoice"
    /\ SlotMatches(text, slot_intent, "amount")
    /\ ~SlotMatches(text, slot_intent, "order_id")
    /\ DOMAIN ret = {"amount"}

(***************************************************************************)
(* Properties of the slot filling stage of process.                        *)
(***************************************************************************)
\* the context of the call names a filler registered with the engine
NamesRegistered ==
    "slot_filler" \in DOMAIN e_context /\ e_context["slot_filler"] \in e_fillers

\* C12: when the context names a registered extra filler, that filler is
\* the one used for the call, the default pattern filler is not, and the
\* slots returned are the slots that filler produced from the merged result
C12_NamedFillerInstead ==
    (e_pc = "done" /\ NamesRegistered)
        => /\ e_selected = e_context["slot_filler"]
           /\ e_selected # "default"
           /\ e_ret.slots = NamedFill(e_context["slot_filler"], e_merged, e_text,
                                      e_context).slots

\* process has returned for the first test case with custom_filler named
\* and registered: the default filler would have found the order number,
\* the slots returned are those of custom_filler and hold no order number
C12_Witness ==
    /\ e_pc = "done"
    /\ e_text = SampleTexts[1]
    /\ NamesRegistered
    /\ e_context["slot_filler"] = "custom_filler"
    /\ "order_id" \in DOMAIN extract_slots(e_text, e_ret.intent)
    /\ DOMAIN e_ret.slots = {"processed_by", "text_length"}
    /\ e_ret.slots["processed_by"] = "custom_filler"
    /\ e_ret.slots["text_length"] = Len(e_text)

\* the context without the key
Without(context, key) == [k \in (DOMAIN context) \ {key} |-> context[k]]

\* the call before this one was this call without the slot_filler key: the
\* recognizers and the fallback filler answered then as they did now
PrevWasWithoutFillerKey ==
    /\ e_prev # NoValue
    /\ e_prev.context = Without(e_context, "slot_filler")
    /\ e_prev.outcome = e_outcome
    /\ e_prev.fallback = e_fallback

\* C13: when the context names a filler that is not registered, process
\* returns a result, has logged a warning naming the filler, has used the
\* default filler, and returns the intent, confidence and slots the same
\* call without the slot_filler key returned
C13_UnknownFillerFallsBack ==
    (e_pc = "done" /\ UnknownFillerNamed(e_context, e_fillers))
        => /\ IsResult(e_ret) /\ e_ret # NoValue
           /\ \E j \in 1..Len(e_log) : e_log[j] = <<"warning", e_context["slot_filler"]>>
           /\ e_selected = "default"
           /\ e_filled = FillSlots(e_merged, e_text)
           /\ PrevWasWithoutFillerKey
                => /\ e_ret.intent = e_prev.intent
                   /\ e_ret.confidence = e_prev.confidence
                   /\ e_ret.slots = e_prev.slots

\* the first test case was processed without a context and then with
\* non_existent_filler named: both calls returned query_order with the order
\* number the default filler found
C13_Witness ==
    /\ e_pc = "done"
    /\ e_text = SampleTexts[1]
    /\ e_context = [k \in {"slot_filler"} |-> "non_existent_filler"]
    /\ UnknownFillerNamed(e_context, e_fillers)
    /\ PrevWasWithoutFillerKey
    /\ e_prev.intent = "query_order"
    /\ e_ret.intent = "query_order"
    /\ "order_id" \in DOMAIN e_ret.slots
    /\ e_ret.slots = e_prev.slots

\* the selected filler has run for this call
FillerHasRun == e_pc \in {"fallback", "return", "done"}

\* C14: the filler that runs for a call is the registered filler its own
\* context names, and the default chain when the context gives no name,
\* whichever filler the call before it on the same engine used
C14_SelectionPerCall ==
    FillerHasRun
        => /\ NamesRegistered
                => /\ e_selected = e_context["slot_filler"]
                   /\ e_filled = NamedFill(e_selected, e_merged, e_text, e_context)
           /\ "slot_filler" \notin DOMAIN e_context
                => /\ e_selected = "default"
                   /\ e_filled = FillSlots(e_merged, e_text)

\* on an engine with both fillers registered a call that named custom_filler
\* was followed by a call naming llm_filler, which llm_filler filled, and
\* by a call without a name, which the default filler filled
C14_Witness ==
    /\ e_pc = "done"
    /\ e_fillers = {"custom_filler", "llm_filler"}
    /\ e_prev # NoValue
    /\ e_prev.selected = "custom_filler"
    /\ \/ /\ NamesRegistered
          /\ e_context["slot_filler"] = "llm_filler"
          /\ e_ret.slots["processed_by"] = "llm_filler"
       \/ /\ "slot_filler" \notin DOMAIN e_context
          /\ e_selected = "default"
          /\ "processed_by" \notin DOMAIN e_ret.slots

\* the fallback filler has been called in this call
FallbackCalled == e_pc = "fallback" \/ e_fallback # "not called"

\* C15: the fallback filler is called only on an engine that has one, for
\* an intent other than "unknown" that declares required slots, and when the
\* selected filler has left one of them unfilled
C15_FallbackOnlyWhenMissing ==
    FallbackCalled
        => /\ e_llm # "absent"
           /\ FillerHasRun
           /\ e_filled.intent # "unknown"
           /\ e_filled.intent \in DOMAIN required_slots
           /\ \E n \in required_slots[e_filled.intent] : n \notin DOMAIN e_filled.slots

\* the fifth test case gave query_order by its keywords and no order number:
\* the fallback filler was called and returned
C15_Witness ==
    /\ e_pc = "done"
    /\ e_text = SampleTexts[5]
    /\ e_selected = "default"
    /\ e_ret.intent = "query_order"
    /\ "order_id" \in required_slots["query_order"]
    /\ "order_id" \notin DOMAIN e_filled.slots
    /\ e_fallback = "returned"

\* the fallback filler was called and raised, or did not return in time
FallbackFailed == e_fallback \in {"raised", "timeout"}

\* C16: when the fallback filler has raised or timed out, the failure is
\* logged, the slots are those the selected filler extracted before it was
\* called, and process returns them with the intent and the confidence the
\* merge step chose
C16_FallbackFailureIsolated ==
    FallbackFailed
        => /\ e_pc \in {"return", "done"}
           /\ e_slots = e_filled.slots
           /\ \E j \in 1..Len(e_log) : e_log[j][2] = "fallback"
           /\ e_pc = "done"
                => /\ IsResult(e_ret) /\ e_ret # NoValue
                   /\ e_ret.slots = e_filled.slots
                   /\ e_ret.intent = e_merged.intent
                   /\ e_ret.confidence = e_merged.confidence

\* custom_filler left the order number of the first test case unfilled, the
\* fallback filler was called and raised or hung, and process has returned
\* query_order with the two slots of custom_filler
C16_Witness ==
    /\ e_pc = "done"
    /\ e_text = SampleTexts[1]
    /\ e_selected = "custom_filler"
    /\ e_llm \in {"raises", "hangs"}
    /\ FallbackFailed
    /\ e_ret.intent = "query_order"
    /\ DOMAIN e_ret.slots = {"processed_by", "text_length"}

(***************************************************************************)
(* Properties of the recognizers.                                          *)
(***************************************************************************)
\* the caller gave no context, or one without trigger_excel, or one where
\* it is False
TriggerOff ==
    \/ e_arg.isNone
    \/ "trigger_excel" \notin DOMAIN e_arg.val
    \/ e_arg.val["trigger_excel"] = FALSE

\* C17: in a call whose context is missing, has no trigger_excel or has it
\* False, the Excel recognizer never reads its sheet and what is recorded
\* for it is no opinion, whatever the text and the rest of the context
C17_NoTriggerNoRead ==
    (e_pc # "idle" /\ TriggerOff)
        => /\ e_reads = 0
           /\ Len(e_collected) >= 1 => e_collected[1] = NoOpinion

\* the Excel recognizer has returned no opinion without a read for a context
\* with trigger_excel False that names a configured excel type of a readable
\* sheet: with the trigger set it would have read the sheet
C17_Witness ==
    /\ Len(e_collected) >= 1
    /\ e_outcome[1] = "returned"
    /\ ~e_arg.isNone
    /\ "trigger_excel" \in DOMAIN e_context
    /\ e_context["trigger_excel"] = FALSE
    /\ e_sheet = "readable"
    /\ ExcelReaches(e_config, Put(e_context, "trigger_excel", TRUE))
    /\ e_collected[1] = NoOpinion
    /\ e_reads = 0

\* C18, as claimed: neither recognizer of the chain ever returns an
\* IntentResult with intent "unknown" or confidence 0.0
C18_AsClaimed ==
    op = "invoke"
        => \A j \in 1..Len(results) :
             results[j].intent # "unknown" /\ results[j].confidence # 0

C20_ContextUnmodified == [][e_pc # "done" => e_arg' = e_arg]_vars

\* the second call of a session has returned: the context the caller passed
\* holds the last_intent the caller wrote after the first call and nothing
\* else, though this call used the default filler and found an order number
C20_Witness ==
    /\ e_pc = "done"
    /\ e_turn = 2
    /\ Aliased(e_arg)
    /\ e_arg.val = [k \in {"last_intent"} |-> e_prev.intent]
    /\ e_ret.intent = "query_order"
    /\ "order_id" \in DOMAIN e_ret.slots

(***************************************************************************)
(* FSMProcessor (fsm_processor.py): the table of states, the current state *)
(* and process.  The class has no method that changes the state; the       *)
(* transition request is the one section 4.4 of the specification asks     *)
(* for, validated against the table.                                       *)
(***************************************************************************)
\* self.states
states ==
    [s \in {"start", "order_query", "refund_request", "invoice_request"} |->
        [transitions |->
            CASE s = "start" -> <<"order_query", "refund_request", "invoice_request">>
              [] s = "order_query" -> <<"order_detail", "logistics_query">>
              [] s = "refund_request" -> <<"refund_reason", "refund_confirm">>
              [] s = "invoice_request" -> <<"invoice_detail", "invoice_confirm">>]]

\* the elements of a list
Elements(list) == {list[i] : i \in 1..Len(list)}

\* the state the FSM is constructed in
initial_state == "start"

\* process entering the business state of the previous turn's intent,
\* whatever the table lists for the current state
process_moving(state, t, context) ==
    LET last == Get(context, "last_intent", "")
    IN  [ret |-> NoOpinion,
         current_state |-> CASE last = "query_order" -> "order_query"
                             [] last = "refund" -> "refund_request"
                             [] last = "issue_invoice" -> "invoice_request"
                             [] OTHER -> state]

\* process continuing the previous turn's intent instead of declining
process_continuing(state, t, context) ==
    [ret |-> IF "last_intent" \in DOMAIN context
             THEN EngineResult(context["last_intent"], 8, "fsm", DefaultField,
                               DefaultField, DefaultField)
             ELSE NoOpinion,
     current_state |-> state]

\* FSMProcessor.process(text, context) called in a state: what it returns and
\* the state it leaves
FSMProcessor_process(state, t, context) ==
    [ret |-> NoOpinion, current_state |-> state]

\* the targets the table lists for a state
LegalTargets(state) ==
    IF state \in DOMAIN states THEN Elements(states[state].transitions) ELSE {}

\* the contexts process is called with: empty, or carrying last_intent
FsmContexts ==
    {<<>>} \cup {[k \in {"last_intent"} |-> i] : i \in {"query_order", "refund", "issue_invoice"}}

InitFSM ==
    /\ ChainIdle
    /\ EngineIdle
    /\ HookIdle
    /\ StoreIdle
    /\ RegistryIdle
    /\ current_state = initial_state
    /\ fsm_request = NoRequest

\* a call of process
FsmProcess ==
    \E t \in SessionTexts, context \in FsmContexts :
        LET out == FSMProcessor_process(current_state, t, context) IN
        /\ fsm_request' = [op |-> "process", from |-> current_state, text |-> t,
                           context |-> context, ret |-> out.ret]
        /\ current_state' = out.current_state
        /\ UNCHANGED <<chain_vars, engine_vars, hook_vars, store_vars, registry_vars>>

\* a transition request: accepted when the table lists the target for the
\* current state, rejected otherwise
Transition ==
    \E target \in (DOMAIN states)
                     \cup UNION {Elements(states[s].transitions) : s \in DOMAIN states} :
        LET legal == target \in LegalTargets(current_state) IN
        /\ fsm_request' = [op |-> "transition", from |-> current_state,
                           target |-> target, accepted |-> legal]
        /\ current_state' = IF legal THEN target ELSE current_state
        /\ UNCHANGED <<chain_vars, engine_vars, hook_vars, store_vars, registry_vars>>

NextFSM == FsmProcess \/ Transition

SpecFSM == InitFSM /\ [][NextFSM]_vars

HookTexts == {SampleTexts[1], SampleTexts[6]}

InitHook ==
    /\ ChainIdle
    /\ FsmIdle
    /\ StoreIdle
    /\ RegistryIdle
    /\ e_hook = NotAsked
    /\ e_config = NoConfig
    /\ e_text \in HookTexts
    /\ e_arg \in {None, Some(<<>>)}
    /\ e_sheet = "readable"
    /\ e_fate = AllReturn
    /\ e_fillers = {}
    /\ e_llm = "absent"
    /\ e_context = OrEmpty(e_arg)
    /\ e_turn = 1
    /\ e_prev = NoValue
    /\ e_pc = "hook"
    /\ e_i = 1
    /\ e_elapsed = 0
    /\ e_collected = <<>>
    /\ e_outcome = <<>>
    /\ e_log = <<>>
    /\ e_ret = NoValue
    /\ e_merged = NoValue
    /\ e_selected = "none"
    /\ e_filled = NoValue
    /\ e_slots = <<>>
    /\ e_fallback = "not called"
    /\ e_reads = 0

\* process asks the hook: a result it gives is returned at once, and when it
\* declines the recognizers are run
AskHook ==
    /\ e_pc = "hook"
    /\ LET out == FSMProcessor_process(current_state, e_text, e_context) IN
       /\ e_hook' = out.ret
       /\ current_state' = out.current_state
       /\ fsm_request' = [op |-> "process", from |-> current_state, text |-> e_text,
                          context |-> e_context, ret |-> out.ret]
       /\ e_pc' = IF IsResult(out.ret) THEN "done" ELSE "next"
       /\ e_ret' = IF IsResult(out.ret) THEN out.ret ELSE e_ret
    /\ UNCHANGED <<chain_vars, store_vars, registry_vars, e_call, e_i, e_elapsed, e_collected,
                   e_outcome, e_log, e_merged, e_selected, e_filled, e_slots,
                   e_fallback, e_reads>>

\* the caller makes the next call with the same text: with the context as it
\* was, or after writing last_intent into it
NextCallHook ==
    /\ e_pc = "done"
    /\ e_turn < MaxTurns
    /\ e_arg' \in {e_arg, WithLastIntent(e_arg, e_ret)}
    /\ e_context' = OrEmpty(e_arg')
    /\ e_turn' = e_turn + 1
    /\ e_prev' = [context |-> e_context, outcome |-> e_outcome,
                  fallback |-> e_fallback, selected |-> e_selected,
                  intent |-> e_ret.intent, confidence |-> e_ret.confidence,
                  slots |-> e_ret.slots]
    /\ e_hook' = NotAsked
    /\ e_pc' = "hook"
    /\ e_i' = 1
    /\ e_elapsed' = 0
    /\ e_collected' = <<>>
    /\ e_outcome' = <<>>
    /\ e_log' = <<>>
    /\ e_ret' = NoValue
    /\ e_merged' = NoValue
    /\ e_selected' = "none"
    /\ e_filled' = NoValue
    /\ e_slots' = <<>>
    /\ e_fallback' = "not called"
    /\ e_reads' = 0
    /\ UNCHANGED <<chain_vars, fsm_vars, store_vars, registry_vars, e_config, e_text, e_sheet, e_fate,
                   e_fillers, e_llm>>

NextHook ==
    \/ AskHook
    \/ StartRecognizer
    \/ Tick
    \/ RecognizerReturns
    \/ RecognizerTimeout
    \/ MergeStep
    \/ SelectFiller
    \/ RunFiller
    \/ Finish
    \/ NextCallHook

SpecHook == InitHook /\ [][NextHook]_vars

\* the call before this one had the same context but for last_intent, and the
\* recognizers answered then as they did now
PrevDiffersInLastIntentOnly ==
    /\ e_prev # NoValue
    /\ Without(e_prev.context, "last_intent") = Without(e_context, "last_intent")
    /\ e_prev.outcome = e_outcome

\* C26: the hook declines every call and leaves the FSM in its state; the
\* call then returns the merge of what the recognizers gave, and the same
\* intent, confidence and slots as the call whose context differs only in
\* last_intent.
C26_HookDeclines ==
    /\ e_hook # NotAsked => (e_hook = NoOpinion /\ current_state = fsm_request.from)
    /\ e_pc = "done" =>
        /\ e_merged = EngineMerge([i \in 1..Len(Recognizers) |-> Contribution(i)])
        /\ e_ret.intent = e_merged.intent
        /\ e_ret.confidence = e_merged.confidence
        /\ e_ret.recognizer = e_merged.recognizer
        /\ PrevDiffersInLastIntentOnly
             => /\ e_ret.intent = e_prev.intent
                /\ e_ret.confidence = e_prev.confidence
                /\ e_ret.slots = e_prev.slots

\* the text no recognizer matches was processed with last_intent in the
\* context after a call without it: the hook declined and the result is
\* unknown both times
C26_Witness ==
    /\ e_pc = "done"
    /\ e_turn = 2
    /\ e_text = SampleTexts[6]
    /\ "last_intent" \in DOMAIN e_context
    /\ "last_intent" \notin DOMAIN e_prev.context
    /\ e_hook = NoOpinion
    /\ e_outcome = e_prev.outcome
    /\ e_ret.intent = "unknown"

(***************************************************************************)
(* SessionManager (p9/session_manager.py) behind the endpoints of          *)
(* p9/main.py.  The handlers run on one event loop: a /chat request reads  *)
(* the history, gives way to other requests while it awaits the reply, and *)
(* then adds the turn.  Time is counted in hours.  The n-th /chat request  *)
(* carries the message n, so that every record is told from the others.    *)
(***************************************************************************)
\* self.sessions.get(session_id, [])
History(sess, session_id) ==
    IF session_id \in DOMAIN sess THEN sess[session_id] ELSE <<>>

\* list[-n:]
LastOf(list, n) ==
    IF n > 0
    THEN IF Len(list) > n THEN SubSeq(list, Len(list) - n + 1, Len(list)) ELSE list
    ELSE SubSeq(list, 1 - n, Len(list))

\* what process_message returns for a message: the answer of the chain, or
\* its apology when the chain raised
Reply(message) == <<"reply", message>>

\* the record add_message builds
message_record(user_message, bot_reply, now) ==
    [user_message |-> user_message, bot_reply |-> bot_reply, unix_timestamp |-> now]

\* self.sessions after add_message, which replaces the history by the list the
\* caller read before it waited, with the record appended
add_message_to_read(sess, session_id, record, max, read) ==
    Put(sess, session_id, Append(read, record))

\* self.sessions after add_message
add_message(sess, session_id, record, max, read) ==
    LET appended == Append(History(sess, session_id), record)
    IN  Put(sess, session_id,
            IF Len(appended) > max THEN LastOf(appended, max) ELSE appended)

\* self.sessions, or self.last_activity, after clear_session
clear_session(d, session_id) == Without(d, session_id)

\* the sessions cleanup_inactive_sessions clears
inactive_sessions(activity, current_time, timeout_hours) ==
    {sid \in DOMAIN activity : current_time - activity[sid] > timeout_hours}

\* a dict without the given keys
WithoutAll(d, keys) == [k \in (DOMAIN d) \ keys |-> d[k]]

InitStore ==
    /\ ChainIdle
    /\ EngineIdle
    /\ FsmIdle
    /\ HookIdle
    /\ RegistryIdle
    /\ sessions = <<>>
    /\ last_activity = <<>>
    /\ max_history_length \in 0..MaxHistoryLength
    /\ clock = 0
    /\ chat = [r \in Requests |-> NoChat]
    /\ sent = 0
    /\ store_request = NoRequest
    /\ added = [sid \in SessionIds |-> <<>>]

\* a /chat request arrives and chat_endpoint reads the history, then awaits
\* the reply
ChatGetHistory ==
    \E r \in Requests, sid \in SessionIds :
        /\ chat[r].pc \in {"free", "done"}
        /\ sent < MaxMessages
        /\ sent' = sent + 1
        /\ last_activity' = Put(last_activity, sid, clock)
        /\ chat' = [chat EXCEPT ![r] = [pc |-> "awaiting", session_id |-> sid,
                                        message |-> sent + 1,
                                        history |-> History(sessions, sid)]]
        /\ store_request' = [op |-> "get_history", session_id |-> sid,
                             ret |-> History(sessions, sid)]
        /\ UNCHANGED <<chain_vars, engine_vars, fsm_vars, hook_vars, registry_vars, sessions,
                       max_history_length, clock, added>>

\* the reply arrives and chat_endpoint adds the turn and answers
ChatAddMessage ==
    \E r \in Requests :
        /\ chat[r].pc = "awaiting"
        /\ LET bot_reply == Reply(chat[r].message)
                sid == chat[r].session_id
                record == message_record(chat[r].message, bot_reply, clock)
            IN  /\ last_activity' = Put(last_activity, sid, clock)
                /\ sessions' = add_message(sessions, sid, record, max_history_length,
                                           chat[r].history)
                /\ added' = [added EXCEPT ![sid] = Append(@, record)]
                /\ chat' = [chat EXCEPT ![r] = [pc |-> "done", session_id |-> sid,
                                                message |-> chat[r].message,
                                                reply |-> bot_reply]]
                /\ store_request' = [op |-> "add_message", session_id |-> sid,
                                     record |-> record]
        /\ UNCHANGED <<chain_vars, engine_vars, fsm_vars, hook_vars, registry_vars,
                       max_history_length, clock, sent>>

\* GET /session/{session_id}/history
GetHistory ==
    \E sid \in SessionIds :
        /\ last_activity' = Put(last_activity, sid, clock)
        /\ store_request' = [op |-> "get_history", session_id |-> sid,
                             ret |-> History(sessions, sid)]
        /\ UNCHANGED <<chain_vars, engine_vars, fsm_vars, hook_vars, registry_vars, sessions,
                       max_history_length, clock, chat, sent, added>>

\* DELETE /session/{session_id}
ClearSession ==
    \E sid \in SessionIds :
        /\ sessions' = clear_session(sessions, sid)
        /\ last_activity' = clear_session(last_activity, sid)
        /\ added' = [added EXCEPT ![sid] = <<>>]
        /\ store_request' = [op |-> "clear_session", session_id |-> sid]
        /\ UNCHANGED <<chain_vars, engine_vars, fsm_vars, hook_vars, registry_vars,
                       max_history_length, clock, chat, sent>>

\* cleanup_inactive_sessions(timeout_hours)
CleanupInactiveSessions ==
    \E timeout_hours \in {0, 1} :
        LET inactive == inactive_sessions(last_activity, clock, timeout_hours) IN
        /\ sessions' = WithoutAll(sessions, inactive)
        /\ last_activity' = WithoutAll(last_activity, inactive)
        /\ added' = [sid \in SessionIds |-> IF sid \in inactive THEN <<>> ELSE added[sid]]
        /\ store_request' = [op |-> "cleanup_inactive_sessions",
                             ret |-> Cardinality(inactive)]
        /\ UNCHANGED <<chain_vars, engine_vars, fsm_vars, hook_vars, registry_vars,
                       max_history_length, clock, chat, sent>>

\* an hour passes
ClockTick ==
    /\ clock < MaxClock
    /\ clock' = clock + 1
    /\ UNCHANGED <<chain_vars, engine_vars, fsm_vars, hook_vars, registry_vars, sessions,
                   last_activity, max_history_length, chat, sent, store_request, added>>

NextStore ==
    \/ ChatGetHistory
    \/ ChatAddMessage
    \/ GetHistory
    \/ ClearSession
    \/ CleanupInactiveSessions
    \/ ClockTick

SpecStore == InitStore /\ [][NextStore]_vars

(***************************************************************************)
(* Properties of the conversation store.                                   *)
(***************************************************************************)
\* the calls that name one session
OneSessionCalls == {"add_message", "get_history", "clear_session"}

\* every record of every history is the message of a request together with
\* the reply to it, added to that session
WholeTurns ==
    \A sid \in DOMAIN sessions :
        \A i \in 1..Len(sessions[sid]) :
            /\ sessions[sid][i].bot_reply = Reply(sessions[sid][i].user_message)
            /\ sessions[sid][i] \in Elements(added[sid])

\* while no more records were added to a session than the limit allows, its
\* history holds all of them, in the order they were added
TurnsKept ==
    \A sid \in SessionIds :
        Len(added[sid]) <= max_history_length => History(sessions, sid) = added[sid]

\* a call that names one session leaves the history of every other as it is
OthersUntouched ==
    \A sid \in SessionIds :
        (store_request'.op \in OneSessionCalls /\ store_request'.session_id # sid)
            => /\ History(sessions', sid) = History(sessions, sid)
               /\ (sid \in DOMAIN sessions') = (sid \in DOMAIN sessions)

\* C22: a call on one session id never changes the history of another; every
\* record of a history is a whole turn, and interleaved /chat requests lose no
\* completed turn while the session is within its length limit.
C22_TurnsIsolatedAndWhole ==
    /\ [](WholeTurns /\ TurnsKept)
    /\ [][OthersUntouched]_vars

\* two /chat requests on one session were served interleaved: the first read
\* the history before the second added its turn and added its own after it;
\* the other session has a history too
C22_Witness ==
    /\ max_history_length = 2
    /\ chat[1].pc = "done" /\ chat[1].session_id = "s1" /\ chat[1].message = 1
    /\ chat[2].pc = "done" /\ chat[2].session_id = "s1" /\ chat[2].message = 2
    /\ "s1" \in DOMAIN sessions
    /\ Len(sessions["s1"]) = 2
    /\ sessions["s1"][1].user_message = 2
    /\ sessions["s1"][2].user_message = 1
    /\ store_request.op = "add_message"

\* the end of a list
IsSuffix(list, of) ==
    /\ Len(list) <= Len(of)
    /\ list = SubSeq(of, Len(of) - Len(list) + 1, Len(of))

\* C29: every history has at most max_history_length records, and they are
\* the records added to the session last, in the order they were added.
C29_AsClaimed ==
    \A sid \in DOMAIN sessions :
        /\ Len(sessions[sid]) <= max_history_length
        /\ IsSuffix(sessions[sid], added[sid])

(***************************************************************************)
(* WorkflowRegistry (workflow/graph_builder.py).  A definition is its id,  *)
(* its nodes (name and type), its edges and its entry point; the compiled  *)
(* graph stands for the definition it was built from.  Nodes of type       *)
(* Planner carry the config the tests give them and can be created;        *)
(* create_node raises NotImplementedError for the types LLM and Tool.      *)
(* StateGraph accepts the nodes and edges of the samples, as in the tests. *)
(***************************************************************************)
Node(name, type) == [name |-> name, type |-> type]

Edge(source, target) == [source |-> source, target |-> target]

WorkflowDefinition(workflow_id, nodes, edges, entry_point) ==
    [workflow_id |-> workflow_id, nodes |-> nodes, edges |-> edges,
     entry_point |-> entry_point, operator_logs |-> {}]

WorkflowIds == {"w1", "w2"}

\* the definitions of the tests, one with a node of a type that is not
\* implemented, and ones the validation rejects
DefinitionsFor(id) ==
    { WorkflowDefinition(id, <<Node("node", "Planner")>>, <<>>, "node"),
      WorkflowDefinition(id, <<Node("start", "Planner"), Node("end", "Reflection")>>,
                         <<Edge("start", "end"), Edge("end", "END")>>, "start"),
      WorkflowDefinition(id, <<Node("node", "Planner")>>, <<>>, "nonexistent"),
      WorkflowDefinition(id, <<Node("node1", "Planner")>>,
                         <<Edge("nonexistent", "node1")>>, "node1"),
      WorkflowDefinition(id, <<Node("node1", "Planner")>>,
                         <<Edge("node1", "nonexistent")>>, "node1"),
      WorkflowDefinition(id, <<Node("node", "LLM")>>, <<>>, "node"),
      WorkflowDefinition(id, <<>>, <<>>, "node") }

SampleDefinitions == UNION {DefinitionsFor(id) : id \in WorkflowIds}

\* {node.name for node in definition.nodes}
node_names(definition) == {definition.nodes[i].name : i \in 1..Len(definition.nodes)}

\* auto_generate_operator_logs: every node gets an operator log
auto_generate_operator_logs(definition) ==
    [definition EXCEPT !.operator_logs = node_names(definition)]

\* the validation without the check of the edge targets
_validate_definition_sources_only(definition) ==
    IF definition.workflow_id = "" THEN "ValueError"
    ELSE IF Len(definition.nodes) = 0 THEN "ValueError"
    ELSE IF definition.entry_point = "" THEN "ValueError"
    ELSE IF definition.entry_point \notin node_names(definition) THEN "ValueError"
    ELSE IF \E i \in 1..Len(definition.edges) :
                /\ definition.edges[i].source \notin node_names(definition)
                /\ definition.edges[i].source # "END"
         THEN "ValueError"
    ELSE "valid"

\* GraphBuilder._validate_definition: "valid", or the exception it raises
_validate_definition(definition) ==
    IF definition.workflow_id = "" THEN "ValueError"
    ELSE IF Len(definition.nodes) = 0 THEN "ValueError"
    ELSE IF definition.entry_point = "" THEN "ValueError"
    ELSE IF definition.entry_point \notin node_names(definition) THEN "ValueError"
    ELSE IF \E i \in 1..Len(definition.edges) :
                \/ /\ definition.edges[i].source \notin node_names(definition)
                   /\ definition.edges[i].source # "END"
                \/ /\ definition.edges[i].target \notin node_names(definition)
                   /\ definition.edges[i].target # "END"
         THEN "ValueError"
    ELSE "valid"

\* create_node: "created", or the exception it raises
create_node(node) ==
    IF node.type \in {"LLM", "Tool"} THEN "NotImplementedError" ELSE "created"

\* GraphBuilder.build_graph: "compiled", or the exception it raises
build_graph(definition) ==
    IF _validate_definition(definition) # "valid"
    THEN _validate_definition(definition)
    ELSE IF \E i \in 1..Len(definition.nodes) : create_node(definition.nodes[i]) # "created"
    THEN "NotImplementedError"
    ELSE "compiled"

has_workflow(workflow_id) == workflow_id \in DOMAIN registry

list_workflows == DOMAIN registry

get_registry_stats ==
    [total_workflows |-> Cardinality(DOMAIN registry), workflow_ids |-> list_workflows]

\* get_workflow_definition: the definition, or None
get_workflow_definition(workflow_id) ==
    IF workflow_id \in DOMAIN definitions THEN Some(definitions[workflow_id]) ELSE None

InitRegistry ==
    /\ ChainIdle
    /\ EngineIdle
    /\ FsmIdle
    /\ HookIdle
    /\ StoreIdle
    /\ registry = <<>>
    /\ definitions = <<>>
    /\ nodes_map = <<>>
    /\ wf_request = NoRequest
    /\ wf_live = {}

\* register_workflow(definition)
RegisterWorkflow ==
    \E given \in SampleDefinitions :
        LET definition == auto_generate_operator_logs(given)
            id == definition.workflow_id
            built == build_graph(definition)
        IN  /\ definitions' = Put(definitions, id, definition)
            /\ nodes_map' = IF built = "compiled"
                            THEN Put(nodes_map, id, node_names(definition))
                            ELSE nodes_map
            /\ registry' = IF built = "compiled"
                           THEN Put(registry, id, [compiled_from |-> definition])
                           ELSE registry
            /\ wf_request' = [op |-> "register_workflow", definition |-> given,
                              outcome |-> IF built = "compiled" THEN "returned" ELSE built,
                              had |-> has_workflow(id)]
            /\ wf_live' = IF built = "compiled" THEN wf_live \cup {id} ELSE wf_live
            /\ UNCHANGED <<chain_vars, engine_vars, fsm_vars, hook_vars, store_vars>>

\* unregister_workflow deleting the stored definition and leaving the graph
UnregisterWorkflowDefinitionOnly ==
    \E id \in WorkflowIds :
        /\ definitions' = Without(definitions, id)
        /\ wf_request' = [op |-> "unregister_workflow", workflow_id |-> id,
                          outcome |-> "returned", ret |-> has_workflow(id)]
        /\ wf_live' = wf_live \ {id}
        /\ UNCHANGED <<chain_vars, engine_vars, fsm_vars, hook_vars, store_vars,
                       registry, nodes_map>>

\* unregister_workflow(workflow_id)
UnregisterWorkflow ==
    \E id \in WorkflowIds :
        /\ registry' = Without(registry, id)
        /\ wf_request' = [op |-> "unregister_workflow", workflow_id |-> id,
                          outcome |-> "returned", ret |-> has_workflow(id)]
        /\ wf_live' = wf_live \ {id}
        /\ UNCHANGED <<chain_vars, engine_vars, fsm_vars, hook_vars, store_vars,
                       definitions, nodes_map>>

NextRegistry == RegisterWorkflow \/ UnregisterWorkflow

SpecRegistry == InitRegistry /\ [][NextRegistry]_vars

(***************************************************************************)
(* Properties of the workflow registry.                                    *)
(***************************************************************************)
\* C23: has_workflow is true, and list_workflows holds the id, exactly for
\* the ids whose registration returned and that were not unregistered since,
\* and total_workflows is their number.
C23_RegistryTracksRegistered ==
    /\ \A id \in WorkflowIds : has_workflow(id) <=> id \in wf_live
    /\ list_workflows = wf_live
    /\ get_registry_stats.total_workflows = Cardinality(wf_live)
    /\ get_registry_stats.workflow_ids = wf_live

\* both workflows were registered and w1 unregistered, which returned True:
\* only w2 is left
C23_Witness ==
    /\ wf_request.op = "unregister_workflow"
    /\ wf_request.workflow_id = "w1"
    /\ wf_request.ret
    /\ has_workflow("w2")
    /\ ~has_workflow("w1")
    /\ get_registry_stats.total_workflows = 1

\* the entry point is not the name of a node of the definition
BadEntryPoint(definition) == definition.entry_point \notin node_names(definition)

\* an edge starts or ends at something that is neither a node nor "END"
BadEdge(definition) ==
    \E i \in 1..Len(definition.edges) :
        \/ definition.edges[i].source \notin node_names(definition) \cup {"END"}
        \/ definition.edges[i].target \notin node_names(definition) \cup {"END"}

\* C24: register_workflow of a definition whose entry point is not one of its
\* nodes, or with an edge from or to something that is neither a node nor
\* "END", raises ValueError and leaves has_workflow of its id as it was: an id
\* that was not registered is not registered after it.
C24_InvalidDefinitionRejected ==
    (/\ wf_request.op = "register_workflow"
     /\ BadEntryPoint(wf_request.definition) \/ BadEdge(wf_request.definition))
        => /\ wf_request.outcome = "ValueError"
           /\ has_workflow(wf_request.definition.workflow_id) = wf_request.had
           /\ ~wf_request.had => wf_request.definition.workflow_id \notin list_workflows

\* a definition with an edge to a node it does not have was given for w1,
\* which was not registered, while w2 is: the call raised ValueError
C24_Witness ==
    /\ wf_request.op = "register_workflow"
    /\ wf_request.definition.workflow_id = "w1"
    /\ ~BadEntryPoint(wf_request.definition)
    /\ \E i \in 1..Len(wf_request.definition.edges) :
           wf_request.definition.edges[i].target = "nonexistent"
    /\ wf_request.outcome = "ValueError"
    /\ ~wf_request.had
    /\ ~has_workflow("w1")
    /\ has_workflow("w2")

\* C30: get_workflow_definition returns a definition for an id exactly when
\* has_workflow is true for it.
C30_AsClaimed ==
    \A id \in WorkflowIds : (get_workflow_definition(id) # None) <=> has_workflow(id)

(***************************************************************************)
(* Properties of the slots invoke returns.                                 *)
(***************************************************************************)
\* C25: invoke returns the intent that won the merge, and slots whose keys
\* are the slots configured for that intent that are found in the text, so
\* none of another intent; the slots are empty for "unknown" and for an intent
\* without slot configuration.
C25_SlotsOfWinningIntent ==
    (op = "invoke")
        => /\ ret.intent = final_result.intent
           /\ DOMAIN ret.slots \subseteq SlotNames(ret.intent)
           /\ DOMAIN ret.slots = {n \in SlotNames(ret.intent) : SlotMatches(text, ret.intent, n)}
           /\ (ret.intent = "unknown" \/ ret.intent \notin DOMAIN slot_patterns)
                => ret.slots = <<>>

\* the regex recognizer named query_order and won, the keyword recognizer
\* named issue_invoice, whose amount slot is in the text: no amount returned
C25_Witness ==
    /\ op = "invoke"
    /\ results[1].intent = "query_order"
    /\ results[2].intent = "issue_invoice"
    /\ results[2].confidence > results[1].confidence
    /\ ret.intent = "query_order"
    /\ SlotMatches(text, "issue_invoice", "amount")
    /\ ret.slots = <<>>

(***************************************************************************)
(* The Excel recognizer without a config.                                  *)
(***************************************************************************)
\* C27, as claimed: a recognizer constructed with config=None whose parse is
\* called with trigger_excel true and a context that supplies execl_path and
\* sheet_name of a readable sheet returns excel_interruption_analysis with
\* confidence 1.0
C27_AsClaimed ==
    (/\ e_config = NoConfig
     /\ Len(e_collected) >= 1
     /\ e_outcome[1] = "returned"
     /\ e_sheet = "readable"
     /\ Get(e_context, "trigger_excel", FALSE)
     /\ Get(e_context, "execl_path", "") # ""
     /\ Get(e_context, "sheet_name", "") # "")
        => /\ IsResult(e_collected[1])
           /\ e_collected[1].intent = "excel_interruption_analysis"
           /\ e_collected[1].confidence = 10

====
